---------------------------- MODULE Spec2Model ----------------------------
(***************************************************************************)
(* Reagent volume checker: the OCR text parsers of pdf_processor.py        *)
(* (parse_e801, parse_au5800 and the generic fallback of parse_ocr_text),  *)
(* the minimum-volume loader of excel_processor.py and the reconciliation  *)
(* of parsed records against minimum volumes                               *)
(* (data_analyzer.find_reagents_to_load).                                  *)
(* SpecReconcile applies find_reagents_to_load to the RecordSets the       *)
(* parsers can build; SpecAU5800 applies parse_au5800 to OCR texts;        *)
(* SpecPipeline loads a sheet, parses a text with parse_ocr_text and       *)
(* reconciles the result; SpecRepeat calls parse_ocr_text several times in *)
(* one process; SpecExtract calls extract_reagent_data_from_pdf on the     *)
(* pages of a document; SpecApp is the session of app.py (config_manager,  *)
(* ui_components.display_sidebar, utils), one step per script run.         *)
(*                                                                         *)
(* Strings are sequences of one-character strings, so that lower(),        *)
(* split(), substring tests, int() and strptime() are computed as the code *)
(* computes them.  Dates are proleptic Gregorian ordinals, as              *)
(* datetime.date.toordinal() gives them, so that date subtraction and      *)
(* min() over dates are integer operations.  A dict whose iteration order  *)
(* matters is a sequence of entries with distinct keys, in insertion       *)
(* order.                                                                  *)
(***************************************************************************)
EXTENDS Integers, Sequences, FiniteSets, TLC

VARIABLES
    pc,                \* "start", "loaded", "ready" (before the reconciliation
                       \* or the call of parse_au5800 under study), "done";
                       \* "upload" before extract_reagent_data_from_pdf and
                       \* "none" after it returned None; "session" in app.py
    \* ---- data_analyzer.find_reagents_to_load
    current_data,      \* argument: dict name -> fields, as <<[name, fields], ...>>
    min_volumes,       \* argument: dict name -> minimum volume
    analyzer,          \* argument: analyzer key
    today,             \* date.today()
    records,           \* rows of the returned DataFrame
    unmatched,         \* the unmatched list
    st_log,            \* streamlit messages emitted, in order
    \* ---- pdf_processor.parse_au5800
    text,              \* argument: the OCR text, a sequence of raw lines
    reagent_sets,      \* dict name -> list of row entries
    failed,            \* lines skipped during parsing
    no_volume_entries, \* "No volume in the Bottle" lines
    final_data,        \* the returned dict
    \* ---- the session around the two calls
    sheet,             \* rows of the selected minimum-volume sheet
    calls,             \* the calls of parse_ocr_text made so far, with results
    \* ---- pdf_processor.extract_reagent_data_from_pdf
    uploaded_pdf_file, \* argument: whether a file is given, whether it can be
                       \* rendered, and its page images
    pages,             \* argument: None or a list of 1-based page numbers
    \* ---- app.py: st.session_state and the way the last script run ended
    custom_configurations,
    selected_format_name,
    reagents_df,
    mins_df,
    result_df,
    config_to_update,
    config_to_delete,
    pdf_processed,
    last_run           \* how the last script run ended: "rerun", "stop", "end",
                       \* "raised", "processed" (the processing block was
                       \* run to its end), "cut" or "cut at 138"

vars == <<pc, current_data, min_volumes, analyzer, today, records, unmatched,
          st_log, text, reagent_sets, failed, no_volume_entries, final_data,
          sheet, calls, uploaded_pdf_file, pages, custom_configurations,
          selected_format_name, reagents_df, mins_df, result_df,
          config_to_update, config_to_delete, pdf_processed, last_run>>

reconcileVars == <<current_data, min_volumes, analyzer, today, records, unmatched>>
parseVars == <<text, reagent_sets, failed, no_volume_entries, final_data>>
sessionVars == <<sheet, calls>>
appVars == <<custom_configurations, selected_format_name,
             reagents_df, mins_df, result_df, config_to_update,
             config_to_delete, pdf_processed, last_run>>

\* An optional value: Python's None is the empty tuple, a present value v is
\* <<v>>.
None == <<>>
Some(v) == <<v>>
Val(o) == o[1]

--------------------------------------------------------------------------
(* config_manager.py and the session state of app.py before any upload *)

\* list(PREDEFINED_CONFIGS.keys()): the names of the predefined formats, in
\* the order of the dict.
PredefinedNames == <<<<"R","o","c","h","e"," ","E","8","0","1">>, <<"B","e","c","k","m","a","n"," ","A","U","5","8","0","0">>>>

\* The predefined configurations.
PREDEFINED_CONFIGS ==
    [name \in {PredefinedNames[1], PredefinedNames[2]} |->
        IF name = PredefinedNames[1]
        THEN [columns |-> <<"Test", "Reason", "Available Tests", "Type", "Pos.",
                            "Remaining", "Lot ID", "Exp. Date">>,
              quantity_column |-> "Remaining",
              test_name_column |-> "Test",
              lot_column |-> "Lot ID",
              expiry_column |-> "Exp. Date",
              is_predefined |-> TRUE]
        ELSE [columns |-> <<"Test Name", "Reagent", "Tests Remaining", "Status",
                            "Lot Number", "Expiration", "Calib Status">>,
              quantity_column |-> "Tests Remaining",
              test_name_column |-> "Test Name",
              lot_column |-> "Lot Number",
              expiry_column |-> "Expiration",
              is_predefined |-> TRUE]]

\* The session state that the first lines of app.py set up, after a script
\* run without any interaction.
SessionInit ==
    /\ custom_configurations = <<>>
    /\ selected_format_name = PredefinedNames[1]
    /\ reagents_df = None
    /\ mins_df = None
    /\ result_df = None
    /\ config_to_update = None
    /\ config_to_delete = None
    /\ pdf_processed = FALSE
    /\ last_run = "end"

--------------------------------------------------------------------------
(* Characters and strings *)

Uppers == <<"A","B","C","D","E","F","G","H","I","J","K","L","M",
            "N","O","P","Q","R","S","T","U","V","W","X","Y","Z">>
Lowers == <<"a","b","c","d","e","f","g","h","i","j","k","l","m",
            "n","o","p","q","r","s","t","u","v","w","x","y","z">>
Digits == <<"0","1","2","3","4","5","6","7","8","9">>

IsUpper(c) == \E i \in 1..26 : Uppers[i] = c
IsLower(c) == \E i \in 1..26 : Lowers[i] = c
IsAlpha(c) == IsUpper(c) \/ IsLower(c)
IsDigit(c) == \E i \in 1..10 : Digits[i] = c
IsSpace(c) == c \in {" ", "\t"}

DigitVal(c) == (CHOOSE i \in 1..10 : Digits[i] = c) - 1

LowerChar(c) == IF IsUpper(c) THEN Lowers[CHOOSE i \in 1..26 : Uppers[i] = c] ELSE c
UpperChar(c) == IF IsLower(c) THEN Uppers[CHOOSE i \in 1..26 : Lowers[i] = c] ELSE c

\* str.lower()
Lower(s) == [i \in 1..Len(s) |-> LowerChar(s[i])]

\* str.title(): a cased character is upper-cased when it follows an uncased
\* character (or starts the string) and lower-cased otherwise.
Title(s) ==
    [i \in 1..Len(s) |->
        IF i = 1 \/ ~IsAlpha(s[i-1]) THEN UpperChar(s[i]) ELSE LowerChar(s[i])]

\* pat in s
Contains(s, pat) ==
    \E k \in 0..(Len(s) - Len(pat)) :
        \A j \in 1..Len(pat) : s[k + j] = pat[j]

\* str.strip()
RECURSIVE LStrip(_)
LStrip(s) == IF s # <<>> /\ IsSpace(Head(s)) THEN LStrip(Tail(s)) ELSE s
RECURSIVE RStrip(_)
RStrip(s) ==
    IF s # <<>> /\ IsSpace(s[Len(s)]) THEN RStrip(SubSeq(s, 1, Len(s) - 1)) ELSE s
Strip(s) == RStrip(LStrip(s))

\* re.split(r"\s+", s) on a stripped, non-empty line: the maximal runs of
\* non-whitespace characters, in order.
RECURSIVE SplitWs(_, _, _)
SplitWs(s, cur, acc) ==
    IF s = <<>> THEN (IF cur = <<>> THEN acc ELSE Append(acc, cur))
    ELSE IF IsSpace(Head(s))
         THEN SplitWs(Tail(s), <<>>, IF cur = <<>> THEN acc ELSE Append(acc, cur))
         ELSE SplitWs(Tail(s), Append(cur, Head(s)), acc)
Split(s) == SplitWs(s, <<>>, <<>>)

\* s.split(sep, 1)[1] for a one-character sep that occurs in s: what follows
\* the first occurrence.
AfterFirst(s, sep) ==
    LET k == CHOOSE i \in 1..Len(s) : s[i] = sep /\ \A j \in 1..(i-1) : s[j] # sep
    IN  SubSeq(s, k + 1, Len(s))

\* re.sub(r"[^\d]", "", s)
RECURSIVE OnlyDigits(_)
OnlyDigits(s) ==
    IF s = <<>> THEN <<>>
    ELSE IF IsDigit(Head(s)) THEN <<Head(s)>> \o OnlyDigits(Tail(s))
         ELSE OnlyDigits(Tail(s))

AllDigits(s) == \A i \in 1..Len(s) : IsDigit(s[i])

\* int(s) for a non-empty string of decimal digits
RECURSIVE DecValue(_)
DecValue(s) ==
    IF s = <<>> THEN 0
    ELSE 10 * DecValue(SubSeq(s, 1, Len(s) - 1)) + DigitVal(s[Len(s)])

--------------------------------------------------------------------------
(* datetime.date *)

IsLeap(y) == y % 4 = 0 /\ (y % 100 # 0 \/ y % 400 = 0)

DaysInMonth(y, m) ==
    IF m = 2 THEN (IF IsLeap(y) THEN 29 ELSE 28)
    ELSE IF m \in {4, 6, 9, 11} THEN 30 ELSE 31

DaysBeforeYear(y) ==
    (y - 1) * 365 + ((y - 1) \div 4) - ((y - 1) \div 100) + ((y - 1) \div 400)

RECURSIVE DaysBeforeMonth(_, _)
DaysBeforeMonth(y, m) ==
    IF m = 1 THEN 0 ELSE DaysBeforeMonth(y, m - 1) + DaysInMonth(y, m - 1)

\* date(y, m, d) raises ValueError outside these ranges.
ValidDate(y, m, d) ==
    /\ y \in 1..9999
    /\ m \in 1..12
    /\ d >= 1 /\ d <= DaysInMonth(y, m)

\* date(y, m, d).toordinal()
DateOrdinal(y, m, d) == DaysBeforeYear(y) + DaysBeforeMonth(y, m) + d

--------------------------------------------------------------------------
(* data_analyzer.py *)

\* Mutant of Get: fields.get(key) or 0, a quantity of zero in place of None.
GetOrZero(d, k) == IF k \in DOMAIN d /\ d[k] # None THEN d[k] ELSE Some(0)

\* fields.get(key): the stored optional value, None when the key is absent.
Get(d, k) == IF k \in DOMAIN d THEN d[k] ELSE None

\* Mutant of GetMin: min_volumes.get(name, 0), a default in place of None.
GetMinDefault(d, k) == IF k \in DOMAIN d THEN Some(d[k]) ELSE Some(0)

\* min_volumes.get(name): the minimum (an integer), None when the name is absent.
GetMin(d, k) == IF k \in DOMAIN d THEN Some(d[k]) ELSE None

\* cfg.get(key) for a key of the configuration whose values are field names:
\* the field name, or NoKey (falsy, like None) when the key is absent.
NoKey == ""
CfgGet(cfg, k) == IF k \in DOMAIN cfg THEN cfg[k] ELSE NoKey

E801 == "Roche e801"
AU5800 == "Beckman AU5800"

\* Mutant of ANALYZER_FIELDS: a profile for every key, which reads the
\* fields of the generic fallback.
ANALYZER_FIELDS_ANY ==
    [key \in {E801, AU5800, "Generic XL"} |->
        [volume_field |-> "volume", expiry_date_field |-> "expiry_date"]]

ANALYZER_FIELDS ==
    (E801 :> [volume_field |-> "remaining",
              available_field |-> "available",
              expiry_date_field |-> "expiry_date"])
    @@
    (AU5800 :> [volume_field |-> "shots",
                onboard_field |-> "onboard_remaining",
                expiry_date_field |-> "expiry_date"])

\* soon = timedelta(days=7)
soon == 7

\* The columns of the returned DataFrame.
cols == <<"Reagent Name", "Current Volume", "Minimum Volume", "Available Tests",
          "Onboard Remaining", "Expiry Date", "Expires Within 7 Days">>

\* Mutant of ExpiresSoon: a strict comparison at the edge of the window.
ExpiresSoonStrict(expiry, tdy) ==
    IF expiry # None THEN (Val(expiry) - tdy) < soon ELSE FALSE

\* expires_soon for one record: False unless the expiry is a date.
ExpiresSoon(expiry, tdy) ==
    IF expiry # None THEN (Val(expiry) - tdy) <= soon ELSE FALSE

\* Mutants of NeedsLoad: a strict threshold; both triggers required.
NeedsLoadStrict(current_vol, min_vol, expires_soon) ==
    current_vol < min_vol \/ expires_soon
NeedsLoadBoth(current_vol, min_vol, expires_soon) ==
    current_vol <= min_vol /\ expires_soon

\* The flagging condition of one record.
NeedsLoad(current_vol, min_vol, expires_soon) ==
    current_vol <= min_vol \/ expires_soon

\* The rec dict built for a flagged record, with the columns it lacks filled
\* with None as the DataFrame construction does.
MakeRec(name, fields, cfg, current_vol, min_vol, expiry, expires_soon) ==
    LET avail_key   == CfgGet(cfg, "available_field")
        onboard_key == CfgGet(cfg, "onboard_field")
    IN  [c \in {cols[i] : i \in 1..Len(cols)} |->
            CASE c = "Reagent Name"          -> Title(name)
              [] c = "Current Volume"        -> current_vol
              [] c = "Minimum Volume"        -> min_vol
              [] c = "Expiry Date"           -> expiry
              [] c = "Expires Within 7 Days" -> expires_soon
              [] c = "Available Tests"       ->
                    IF avail_key # NoKey /\ avail_key \in DOMAIN fields
                    THEN fields[avail_key] ELSE None
              [] c = "Onboard Remaining"     ->
                    IF onboard_key # NoKey /\ onboard_key \in DOMAIN fields
                    THEN fields[onboard_key] ELSE None]

\* Mutant of AddRecord: records.insert(0, rec).
AddRecordFront(lst, rec) == <<rec>> \o lst

\* unmatched.append(name) and records.append(rec)
AddUnmatched(lst, name) == Append(lst, name)
AddRecord(lst, rec) == Append(lst, rec)

\* The loop over current_data.items(): acc = [records, unmatched].
RECURSIVE ReconcileLoop(_, _, _, _, _)
ReconcileLoop(items, mins, cfg, tdy, acc) ==
    IF items = <<>> THEN acc
    ELSE
      LET name        == Head(items).name
          fields      == Head(items).fields
          current_vol == Get(fields, cfg.volume_field)
          min_vol     == GetMin(mins, name)
          expiry      == Get(fields, cfg.expiry_date_field)
          expires_soon == ExpiresSoon(expiry, tdy)
          next ==
            IF current_vol = None THEN acc
            ELSE IF min_vol = None
                 THEN [acc EXCEPT !.unmatched = AddUnmatched(@, name)]
            ELSE IF NeedsLoad(Val(current_vol), Val(min_vol), expires_soon)
                 THEN [acc EXCEPT !.records =
                          AddRecord(@, MakeRec(name, fields, cfg, Val(current_vol),
                                               Val(min_vol), expiry, expires_soon))]
            ELSE acc
      IN  ReconcileLoop(Tail(items), mins, cfg, tdy, next)

\* Mutant of ArgumentsAfterCall: min_volumes.setdefault(name, 0) in the loop,
\* which adds every looked-up name to the caller's dict.
ArgumentsAfterCallSetdefault ==
    /\ min_volumes' =
          [n \in DOMAIN min_volumes \cup {current_data[i].name : i \in 1..Len(current_data)}
              |-> IF n \in DOMAIN min_volumes THEN min_volumes[n] ELSE 0]
    /\ UNCHANGED <<current_data, analyzer, today>>

\* What the call leaves of its arguments: it reads them with .items() and
\* .get() and assigns to none of them.
ArgumentsAfterCall == UNCHANGED <<current_data, min_volumes, analyzer, today>>

\* The call find_reagents_to_load(current_data, min_volumes, analyzer).
find_reagents_to_load ==
    /\ pc = "ready"
    /\ IF analyzer \notin DOMAIN ANALYZER_FIELDS
       THEN /\ records' = <<>>
            /\ unmatched' = <<>>
            /\ st_log' = Append(st_log, "error: unsupported analyzer")
       ELSE LET out == ReconcileLoop(current_data, min_volumes,
                                     ANALYZER_FIELDS[analyzer], today,
                                     [records |-> <<>>, unmatched |-> <<>>])
            IN  /\ records' = out.records
                /\ unmatched' = out.unmatched
                /\ st_log' = IF out.unmatched # <<>>
                             THEN Append(st_log, "info: unmatched")
                             ELSE st_log
    /\ pc' = "done"
    /\ ArgumentsAfterCall
    /\ UNCHANGED <<parseVars, sessionVars, uploaded_pdf_file, pages, appVars>>

--------------------------------------------------------------------------
(* Inputs of find_reagents_to_load *)

Name ==
    [gluc |->
        <<"g","l","u","c">>,
     bun |->
        <<"b","u","n">>,
     ft3 |->
        <<"f","t","3">>]
Names  == {Name.gluc, Name.bun, Name.ft3}

\* Longest RecordSet and largest quantity drawn.
MaxRecords == 2
MaxVol == 2

\* A key no profile is registered for.
UNREGISTERED == "Generic XL"

Todays == {DateOrdinal(2025, 5, 1)}

\* Expiry dates drawn for a record: none, the edge of the window, one day past.
ExpiryChoices(tdy) == {None, Some(tdy + soon), Some(tdy + soon + 1)}

\* The fields dicts each parser of pdf_processor.py builds (lines 84-89,
\* 210-214, 236).
E801Fields(tdy) ==
    [available : {Some(7)},
     remaining : {None} \cup {Some(v) : v \in 0..MaxVol},
     expiry_date : ExpiryChoices(tdy),
     expiry_days : {None}]
AU5800Fields(tdy) ==
    [shots : {Some(v) : v \in 0..MaxVol},
     expiry_date : ExpiryChoices(tdy),
     onboard_remaining : {None}]
GenericFields ==
    [volume : {Some(v) : v \in 0..MaxVol},
     expiry_date : {None}]

\* The calls drawn: the analyzer key with the parser whose records it is given.
Calls(tdy) ==
    {<<E801, E801Fields(tdy)>>, <<AU5800, AU5800Fields(tdy)>>,
     <<E801, GenericFields>>, <<UNREGISTERED, GenericFields>>}

\* dicts of at most MaxRecords entries over Names, in every insertion order.
RecordSets(fieldSet) ==
    UNION {
        {s \in [1..n -> [name : Names, fields : fieldSet]] :
            \A i, j \in 1..n : i # j => s[i].name # s[j].name}
        : n \in 0..MaxRecords}

MinVolumeMaps == UNION {[S -> {1}] : S \in SUBSET Names}

ReconcileInit ==
    /\ pc = "ready"
    /\ today \in Todays
    /\ \E c \in Calls(today) :
          /\ analyzer = c[1]
          /\ current_data \in RecordSets(c[2])
    /\ min_volumes \in MinVolumeMaps
    /\ records = <<>>
    /\ unmatched = <<>>
    /\ st_log = <<>>
    /\ text = <<>>
    /\ reagent_sets = <<>>
    /\ failed = <<>>
    /\ no_volume_entries = <<>>
    /\ final_data = <<>>
    /\ sheet = <<>>
    /\ calls = <<>>
    /\ uploaded_pdf_file = [present |-> FALSE, readable |-> FALSE, images |-> <<>>]
    /\ pages = None
    /\ SessionInit

ReconcileNext == find_reagents_to_load

SpecReconcile == ReconcileInit /\ [][ReconcileNext]_vars

--------------------------------------------------------------------------
(* pdf_processor.py: parse_au5800 *)

\* The substrings the parser looks for in a lower-cased line.
Word ==
    [header |-> \* "r1/r2 shots"
        <<"r","1","/","r","2"," ","s","h","o","t","s">>,
     total |-> \* "total"
        <<"t","o","t","a","l">>,
     summary |-> \* "summary"
        <<"s","u","m","m","a","r","y">>,
     magazine |-> \* "magazine"
        <<"m","a","g","a","z","i","n","e">>,
     waste |-> \* "waste"
        <<"w","a","s","t","e">>,
     novolume |-> \* "no volume in the bottle"
        <<"n","o"," ","v","o","l","u","m","e"," ","i","n"," ","t","h","e"," ",
          "b","o","t","t","l","e">>,
     test |-> \* "test"
        <<"t","e","s","t">>,
     remaining |-> \* "remaining"
        <<"r","e","m","a","i","n","i","n","g">>]

\* "r1/r2 shots" in line.lower()
IsHeaderAU(line) == Contains(Lower(line), Word.header)

\* any(kw in low for kw in ['total', 'summary', 'magazine', 'waste'])
IsTerminator(line) ==
    \E kw \in {Word.total, Word.summary, Word.magazine, Word.waste} : Contains(Lower(line), kw)

\* [l.strip() for l in text.splitlines() if l.strip()]
RECURSIVE StrippedLines(_)
StrippedLines(raw) ==
    IF raw = <<>> THEN <<>>
    ELSE IF Strip(Head(raw)) = <<>> THEN StrippedLines(Tail(raw))
         ELSE <<Strip(Head(raw))>> \o StrippedLines(Tail(raw))

\* s.split(sep) for a one-character sep
RECURSIVE SplitOn(_, _, _, _)
SplitOn(s, sep, cur, acc) ==
    IF s = <<>> THEN Append(acc, cur)
    ELSE IF Head(s) = sep THEN SplitOn(Tail(s), sep, <<>>, Append(acc, cur))
         ELSE SplitOn(Tail(s), sep, Append(cur, Head(s)), acc)

\* The directives of "%m/%d/%Y" as strptime's regular expressions take them:
\* 1[0-2]|0[1-9]|[1-9], then 3[01]|[12]\d|0[1-9]|[1-9], then \d\d\d\d.
MonthDirective(p) ==
    \/ Len(p) = 2 /\ p[1] = "1" /\ p[2] \in {"0", "1", "2"}
    \/ Len(p) = 2 /\ p[1] = "0" /\ IsDigit(p[2]) /\ p[2] # "0"
    \/ Len(p) = 1 /\ IsDigit(p[1]) /\ p[1] # "0"
DayDirective(p) ==
    \/ Len(p) = 2 /\ p[1] = "3" /\ p[2] \in {"0", "1"}
    \/ Len(p) = 2 /\ p[1] \in {"1", "2"} /\ IsDigit(p[2])
    \/ Len(p) = 2 /\ p[1] = "0" /\ IsDigit(p[2]) /\ p[2] # "0"
    \/ Len(p) = 1 /\ IsDigit(p[1]) /\ p[1] # "0"
YearDirective(p) == Len(p) = 4 /\ AllDigits(p)

\* datetime.strptime(tok, "%m/%d/%Y").date(): the date, or None where
\* strptime raises ValueError.
ParseMDY(tok) ==
    LET parts == SplitOn(tok, "/", <<>>, <<>>)
    IN  IF /\ Len(parts) = 3
           /\ MonthDirective(parts[1])
           /\ DayDirective(parts[2])
           /\ YearDirective(parts[3])
           /\ ValidDate(DecValue(parts[3]), DecValue(parts[1]), DecValue(parts[2]))
        THEN Some(DateOrdinal(DecValue(parts[3]), DecValue(parts[1]), DecValue(parts[2])))
        ELSE None

\* The loop over range(7, min(10, len(tokens))): the first token that parses
\* as a date (0-based index i is tokens[i + 1] here).
RECURSIVE FindExpiry(_, _)
FindExpiry(tokens, i) ==
    IF i >= (IF Len(tokens) < 10 THEN Len(tokens) ELSE 10) THEN None
    ELSE IF ParseMDY(tokens[i + 1]) # None THEN ParseMDY(tokens[i + 1])
         ELSE FindExpiry(tokens, i + 1)

\* Step 1 of a data row: the reagent name and the tokens the later fields are
\* read from (re-joined when the name token was split as in "12 .BUN").
RowName(tokens) ==
    IF Contains(tokens[2], <<".">>)
    THEN [name |-> Lower(AfterFirst(tokens[2], ".")), tokens |-> tokens]
    ELSE IF Len(tokens) > 2 /\ Contains(tokens[3], <<".">>)
    THEN [name |-> Lower(AfterFirst(tokens[3], ".")),
          tokens |-> <<tokens[1], tokens[2] \o tokens[3]>> \o SubSeq(tokens, 4, Len(tokens))]
    ELSE [name |-> Lower(tokens[2]), tokens |-> tokens]

\* reagent_sets[name].append(entry), creating the list for a new name.
AppendEntry(sets, name, entry) ==
    IF \E i \in 1..Len(sets) : sets[i].name = name
    THEN [i \in 1..Len(sets) |->
            IF sets[i].name = name
            THEN [sets[i] EXCEPT !.entries = Append(@, entry)]
            ELSE sets[i]]
    ELSE Append(sets, [name |-> name, entries |-> <<entry>>])

\* The name recorded for a "No volume in the Bottle" line.
NoVolumeName(name_token) ==
    IF Contains(name_token, <<".">>)
    THEN (IF Len(SplitOn(name_token, ".", <<>>, <<>>)) >= 2
          THEN Lower(SplitOn(name_token, ".", <<>>, <<>>)[2])
          ELSE Lower(name_token))
    ELSE Lower(name_token)

\* OCR lines drawn for the text.
AULine ==
    [header |-> \* "Pos. Test Name R1/R2 Shots Onboard"
        <<"P","o","s","."," ","T","e","s","t"," ","N","a","m","e"," ","R","1",
          "/","R","2"," ","S","h","o","t","s"," ","O","n","b","o","a","r","d">>,
     \* A header line that lacks the "Pos." label.
     header2 |-> \* "Test Name R1/R2 Shots"
        <<"T","e","s","t"," ","N","a","m","e"," ","R","1","/","R","2"," ","S","h",
          "o","t","s">>,
     bun30 |-> \* " 1 12.BUN R1 30 9D 9D 9D 05/01/2025"
        <<" ","1"," ","1","2",".","B","U","N"," ","R","1"," ","3","0"," ","9",
          "D"," ","9","D"," ","9","D"," ","0","5","/","0","1","/","2","0","2",
          "5">>,
     bun45 |-> \* "2 12.BUN R2 45 9D 9D 9D 4/15/2025 "
        <<"2"," ","1","2",".","B","U","N"," ","R","2"," ","4","5"," ","9","D",
          " ","9","D"," ","9","D"," ","4","/","1","5","/","2","0","2","5"," ">>,
     bun10 |-> \* "3 12.BUN R1 10 9D 9D 9D --"
        <<"3"," ","1","2",".","B","U","N"," ","R","1"," ","1","0"," ","9","D",
          " ","9","D"," ","9","D"," ","-","-">>,
     bun15 |-> \* "4 12 .BUN R2 1,5 9D 9D 9D 9D 02/30/2025 03/01/2025"
        <<"4"," ","1","2"," ",".","B","U","N"," ","R","2"," ","1",",","5"," ",
          "9","D"," ","9","D"," ","9","D"," ","9","D"," ","0","2","/","3","0",
          "/","2","0","2","5"," ","0","3","/","0","1","/","2","0","2","5">>,
     alt20 |-> \* "5 7.ALT  R1 20 9D 9D 9D A1 06/30/2025"
        <<"5"," ","7",".","A","L","T"," "," ","R","1"," ","2","0"," ","9","D",
          " ","9","D"," ","9","D"," ","A","1"," ","0","6","/","3","0","/","2",
          "0","2","5">>,
     short |-> \* "6 12.BUN R1 99"
        <<"6"," ","1","2",".","B","U","N"," ","R","1"," ","9","9">>,
     noshots |-> \* "7 7.ALT R1 -- 9D 9D 9D 05/01/2025"
        <<"7"," ","7",".","A","L","T"," ","R","1"," ","-","-"," ","9","D"," ",
          "9","D"," ","9","D"," ","0","5","/","0","1","/","2","0","2","5">>,
     novol |-> \* "8 7.ALT No volume in the Bottle"
        <<"8"," ","7",".","A","L","T"," ","N","o"," ","v","o","l","u","m","e",
          " ","i","n"," ","t","h","e"," ","B","o","t","t","l","e">>,
     noname |-> \* "9 12. R1 30 9D 9D 9D 05/01/2025"
        <<"9"," ","1","2","."," ","R","1"," ","3","0"," ","9","D"," ","9","D"," ",
          "9","D"," ","0","5","/","0","1","/","2","0","2","5">>,
     summary |-> \* "Reagent Summary"
        <<"R","e","a","g","e","n","t"," ","S","u","m","m","a","r","y">>,
     blank |-> \* "  "
        <<" "," ">>]

AULines == {AULine.header, AULine.bun30, AULine.bun45, AULine.bun10, AULine.bun15, AULine.alt20, AULine.short,
            AULine.noshots, AULine.novol, AULine.summary, AULine.blank}

\* What the loop body makes of one line after the header: "break" at a
\* terminator, "no_volume" and "failed" for the lines it sets aside, "row" with
\* the name, the shots and the expiry date of an accepted data row.  header says
\* whether the line qualifies as the header.
LineOutcome(raw_line) ==
    LET low    == Lower(raw_line)
        tokens == Split(raw_line)
        none   == [header |-> IsHeaderAU(raw_line), kind |-> "failed",
                   name |-> <<>>, shots |-> 0, expiry_date |-> None]
    IN  IF IsTerminator(raw_line) THEN [none EXCEPT !.kind = "break"]
        ELSE IF Contains(low, Word.novolume)
        THEN IF Len(tokens) < 2
             THEN none
             ELSE [none EXCEPT !.kind = "no_volume", !.name = NoVolumeName(tokens[2])]
        ELSE IF Len(tokens) < 8
        THEN none
        ELSE LET row    == RowName(tokens)
                 digits == OnlyDigits(row.tokens[4])
             IN  IF digits = <<>>
                 THEN none
                 ELSE [none EXCEPT !.kind = "row",
                                   !.name = row.name,
                                   !.shots = DecValue(digits),
                                   !.expiry_date = FindExpiry(row.tokens, 7)]

\* LineOutcome tabulated over the stripped lines the texts are drawn from (the
\* table is computed once; OutcomeOf(l) = LineOutcome(l) for every such line).
LineOutcomes ==
    [l \in {Strip(x) : x \in AULines \cup {AULine.header2, AULine.noname}} |-> LineOutcome(l)]
OutcomeOf(raw_line) == LineOutcomes[raw_line]

\* next((i for i, line in enumerate(lines) if ...), None), 1-based; 0 is None.
HeaderIdxAU(lines) ==
    LET hs == {i \in 1..Len(lines) : OutcomeOf(lines[i]).header}
    IN  IF hs = {} THEN 0 ELSE CHOOSE i \in hs : \A j \in hs : i <= j

\* Mutant of ParseRowAU: a "No volume in the Bottle" line is stored as an
\* entry of no shots for its reagent.
ParseRowAUEmptyBottle(raw_line, acc) ==
    LET o == OutcomeOf(raw_line)
    IN  IF o.kind = "failed"
        THEN [acc EXCEPT !.failed = Append(@, raw_line)]
        ELSE [acc EXCEPT !.reagent_sets =
                 AppendEntry(@, o.name,
                     [line |-> raw_line, shots |-> o.shots,
                      expiry_date |-> o.expiry_date])]

\* One iteration of the loop over the lines after the header, for a line that
\* is no terminator: acc = [reagent_sets, failed, no_volume_entries].
ParseRowAU(raw_line, acc) ==
    LET o == OutcomeOf(raw_line)
    IN  CASE o.kind = "failed" ->
                [acc EXCEPT !.failed = Append(@, raw_line)]
          [] o.kind = "no_volume" ->
                [acc EXCEPT !.no_volume_entries =
                    Append(@, [name |-> o.name, line |-> raw_line])]
          [] o.kind = "row" ->
                [acc EXCEPT !.reagent_sets =
                    AppendEntry(@, o.name,
                        [line |-> raw_line, shots |-> o.shots,
                         expiry_date |-> o.expiry_date])]

\* The loop over lines[header_idx + 1:], which breaks at the first terminator.
RECURSIVE ParseRowsAU(_, _)
ParseRowsAU(lines, acc) ==
    IF lines = <<>> THEN acc
    ELSE IF OutcomeOf(Head(lines)).kind = "break" THEN acc
         ELSE ParseRowsAU(Tail(lines), ParseRowAU(Head(lines), acc))

\* Mutant of SortByShots: the entries are paired in the order of the rows.
Unsorted(entries) == entries

\* sorted(entries, key=lambda x: x["shots"]): a stable ascending sort.
RECURSIVE SortByShots(_)
SortByShots(entries) ==
    IF entries = <<>> THEN <<>>
    ELSE LET rest == SortByShots(SubSeq(entries, 1, Len(entries) - 1))
             last == entries[Len(entries)]
             k    == Cardinality({i \in 1..Len(rest) : rest[i].shots <= last.shots})
         IN  SubSeq(rest, 1, k) \o <<last>> \o SubSeq(rest, k + 1, Len(rest))

\* Mutant of PairShots: the higher of the pair.
PairShotsMax(s1, s2) == IF s1 >= s2 THEN s1 ELSE s2

\* min(s1, s2)
PairShots(s1, s2) == IF s1 <= s2 THEN s1 ELSE s2

\* The while loop over the sorted entries: total_usable.
RECURSIVE TotalUsable(_, _)
TotalUsable(entries, i) ==
    IF i > Len(entries) THEN 0
    ELSE IF i + 1 <= Len(entries)
         THEN PairShots(entries[i].shots, entries[i + 1].shots)
                  + TotalUsable(entries, i + 2)
         ELSE entries[i].shots + TotalUsable(entries, i + 1)

\* Mutant of EarliestExpiry: max(expiry_dates).
LatestExpiry(entries) ==
    LET ds == {Val(entries[i].expiry_date) :
                 i \in {j \in 1..Len(entries) : entries[j].expiry_date # None}}
    IN  IF ds = {} THEN None ELSE Some(CHOOSE d \in ds : \A e \in ds : e <= d)

\* min(expiry_dates) over the dates that are not None, None if there is none.
EarliestExpiry(entries) ==
    LET ds == {Val(entries[i].expiry_date) :
                 i \in {j \in 1..Len(entries) : entries[j].expiry_date # None}}
    IN  IF ds = {} THEN None ELSE Some(CHOOSE d \in ds : \A e \in ds : d <= e)

\* The loop over reagent_sets.items() that builds final_data.
Aggregate(sets) ==
    [i \in 1..Len(sets) |->
        LET entries == SortByShots(sets[i].entries)
        IN  [name |-> sets[i].name,
             fields |-> [shots |-> Some(TotalUsable(entries, 1)),
                         expiry_date |-> EarliestExpiry(entries),
                         onboard_remaining |-> None]]]

\* parse_au5800(text) as a function of the text: what it collects and returns.
ParseAU5800(raw) ==
    LET lines      == StrippedLines(raw)
        header_idx == HeaderIdxAU(lines)
        empty      == [reagent_sets |-> <<>>, failed |-> <<>>, no_volume_entries |-> <<>>]
    IN  IF header_idx = 0
        THEN [found |-> FALSE, reagent_sets |-> <<>>, failed |-> <<>>,
              no_volume_entries |-> <<>>, final_data |-> <<>>]
        ELSE LET acc == ParseRowsAU(SubSeq(lines, header_idx + 1, Len(lines)), empty)
             IN  [found |-> TRUE, reagent_sets |-> acc.reagent_sets,
                  failed |-> acc.failed,
                  no_volume_entries |-> acc.no_volume_entries,
                  final_data |-> Aggregate(acc.reagent_sets)]

\* The call parse_au5800(text).
parse_au5800 ==
    /\ pc = "ready"
    /\ LET out == ParseAU5800(text)
       IN  /\ reagent_sets' = out.reagent_sets
           /\ failed' = out.failed
           /\ no_volume_entries' = out.no_volume_entries
           /\ final_data' = out.final_data
           /\ st_log' =
                IF ~out.found THEN Append(st_log, "warning: header not found")
                ELSE IF out.failed # <<>> THEN Append(st_log, "expander: lines skipped")
                ELSE st_log
    /\ pc' = "done"
    /\ UNCHANGED <<text, current_data, min_volumes, analyzer, today, records, unmatched>>
    /\ UNCHANGED <<sessionVars, uploaded_pdf_file, pages, appVars>>

--------------------------------------------------------------------------
(* Inputs of parse_au5800 *)

\* Most lines drawn after the leading lines of a text.
MaxRows == 3

\* What a text starts with: nothing, the header, a line and the header.
AULeads == {<<>>, <<AULine.header>>, <<AULine.short, AULine.header>>}

AUTexts ==
    {lead \o rows : lead \in AULeads,
                    rows \in UNION {[1..n -> AULines] : n \in 0..MaxRows}}

ParseInit ==
    /\ pc = "ready"
    /\ text \in AUTexts
    /\ reagent_sets = <<>>
    /\ failed = <<>>
    /\ no_volume_entries = <<>>
    /\ final_data = <<>>
    /\ st_log = <<>>
    /\ current_data = <<>>
    /\ min_volumes = <<>>
    /\ analyzer = AU5800
    /\ today = DateOrdinal(2025, 5, 1)
    /\ records = <<>>
    /\ unmatched = <<>>
    /\ sheet = <<>>
    /\ calls = <<>>
    /\ uploaded_pdf_file = [present |-> FALSE, readable |-> FALSE, images |-> <<>>]
    /\ pages = None
    /\ SessionInit

ParseNext == parse_au5800

SpecAU5800 == ParseInit /\ [][ParseNext]_vars

--------------------------------------------------------------------------
(* pdf_processor.py: ANALYZER_HEADERS and parse_e801 *)

\* The expected header labels of each analyzer, left to right.
ANALYZER_HEADERS ==
    (E801 :>
        <<<<"T","e","s","t">>, <<"R","e","a","s","o","n">>,
          <<"A","v","a","i","l","a","b","l","e"," ","T","e","s","t","s">>,
          <<"T","y","p","e">>, <<"P","o","s",".">>,
          <<"R","e","m","a","i","n","i","n","g">>,
          <<"L","o","t"," ","I","D">>,
          <<"E","x","p","i","r","y"," ","D","a","t","e">>>>)
    @@
    (AU5800 :>
        <<<<"P","o","s",".">>, <<"T","e","s","t"," ","N","a","m","e">>,
          <<"R","1","/","R","2"," ","S","h","o","t","s">>,
          <<"O","n","b","o","a","r","d"," ","R","e","m","a","i","n","i","n","g">>,
          <<"R","B"," ","S","t","a","b","i","l","i","t","y"," ","R","e","m","a","i","n","i","n","g">>,
          <<"C","a","l"," ","S","t","a","b","i","l","i","t","y"," ","R","e","m","a","i","n","i","n","g">>,
          <<"E","x","p","i","r","a","t","i","o","n">>,
          <<"L","o","t"," ","N","o",".">>,
          <<"B","T","L"," ","N","o">>,
          <<"S","e","q",".">>,
          <<"C","o","m","m","e","n","t">>>>)

\* Mutant of IsHeaderE801: the first three expected labels are looked for.
IsHeaderE801Labels(line) ==
    \A k \in 1..3 : Contains(Lower(line), Lower(ANALYZER_HEADERS[E801][k]))

\* 'test' in line.lower() and 'remaining' in line.lower()
IsHeaderE801(line) ==
    Contains(Lower(line), Word.test) /\ Contains(Lower(line), Word.remaining)

\* Where the longest run of whitespace (of digits) that starts at s[i] ends;
\* i - 1 when s[i] is no such character.  \s+ and \d+ are greedy, and what
\* follows each of them in the patterns below cannot start inside the run.
WsRunEnd(s, i) ==
    CHOOSE j \in (i - 1)..Len(s) :
        /\ \A k \in i..j : IsSpace(s[k])
        /\ j = Len(s) \/ ~IsSpace(s[j + 1])
DigitRunEnd(s, i) ==
    CHOOSE j \in (i - 1)..Len(s) :
        /\ \A k \in i..j : IsDigit(s[k])
        /\ j = Len(s) \/ ~IsDigit(s[j + 1])

\* s[i:] starts with the lower-case word kw, whatever the case (re.IGNORECASE)
StartsWithCI(s, i, kw) ==
    /\ Len(s) >= i + Len(kw) - 1
    /\ \A k \in 1..Len(kw) : LowerChar(s[i + k - 1]) = kw[k]

\* (ASSAY|PRE|DIL)
TypeWords ==
    {<<"a","s","s","a","y">>, <<"p","r","e">>, <<"d","i","l">>}

\* Whether \s+(\d+)\s+(ASSAY|PRE|DIL) matches right after the first a
\* characters of the line.
RowTailAt(line, a) ==
    LET w1 == WsRunEnd(line, a + 1)
        d  == DigitRunEnd(line, w1 + 1)
        w2 == WsRunEnd(line, d + 1)
    IN  /\ w1 >= a + 1
        /\ d >= w1 + 1
        /\ w2 >= d + 1
        /\ \E kw \in TypeWords : StartsWithCI(line, w2 + 1, kw)

\* re.match(r"^(.+?)\s+(\d+)\s+(ASSAY|PRE|DIL)", line, re.IGNORECASE): None,
\* or the groups raw_name and avail_str.  (.+?) is lazy: the shortest name
\* after which the rest matches.
MatchRow(line) ==
    LET ends == {a \in 1..Len(line) : RowTailAt(line, a)}
    IN  IF ends = {} THEN None
        ELSE LET a  == CHOOSE x \in ends : \A y \in ends : x <= y
                 w1 == WsRunEnd(line, a + 1)
             IN  Some([raw_name |-> SubSeq(line, 1, a),
                       avail_str |-> SubSeq(line, w1 + 1, DigitRunEnd(line, w1 + 1))])

\* Mutant of StripSuffix: the name is kept as printed.
KeepSuffix(raw_name) == raw_name

\* re.sub(r"[-\s]\d+$", "", raw_name): a '-' or a whitespace character
\* followed by digits up to the end is removed.
StripSuffix(raw_name) ==
    LET starts == {i \in 1..(Len(raw_name) - 1) :
                      /\ raw_name[i] = "-" \/ IsSpace(raw_name[i])
                      /\ \A k \in (i + 1)..Len(raw_name) : IsDigit(raw_name[k])}
    IN  IF starts = {} THEN raw_name
        ELSE SubSeq(raw_name, 1, (CHOOSE i \in starts : TRUE) - 1)

\* base.strip().lower()
KeyE801(raw_name) == Lower(Strip(StripSuffix(raw_name)))

\* int(tok): the value, or None where int raises ValueError.  int accepts a
\* sign, then digits that single underscores may separate.
PyInt(tok) ==
    LET signed == tok # <<>> /\ tok[1] \in {"+", "-"}
        body   == IF signed THEN Tail(tok) ELSE tok
        ok     == /\ body # <<>>
                  /\ \A i \in 1..Len(body) :
                        \/ IsDigit(body[i])
                        \/ /\ body[i] = "_"
                           /\ i > 1 /\ i < Len(body)
                           /\ IsDigit(body[i - 1]) /\ IsDigit(body[i + 1])
        n      == DecValue(OnlyDigits(body))
    IN  IF ~ok THEN None
        ELSE IF signed /\ tok[1] = "-" THEN Some(0 - n) ELSE Some(n)

\* Mutant of RemainingOf: the count after the name is taken (tokens[1]).
RemainingIsCount(tokens) == IF Len(tokens) >= 2 THEN PyInt(tokens[2]) ELSE None

\* try: remaining = int(tokens[4]) except: remaining = None
RemainingOf(tokens) == IF Len(tokens) >= 5 THEN PyInt(tokens[5]) ELSE None

\* re.match(r"(\d{4})/(\d{2})", tok), then date(int(y), int(mth), 1) in a try
ExpiryDateOf(tok) ==
    IF /\ Len(tok) >= 7
       /\ \A k \in 1..4 : IsDigit(tok[k])
       /\ tok[5] = "/"
       /\ IsDigit(tok[6]) /\ IsDigit(tok[7])
       /\ ValidDate(DecValue(SubSeq(tok, 1, 4)), DecValue(SubSeq(tok, 6, 7)), 1)
    THEN Some(DateOrdinal(DecValue(SubSeq(tok, 1, 4)), DecValue(SubSeq(tok, 6, 7)), 1))
    ELSE None

\* re.search(r"\((\d+)\)", tok), then int(dm.group(1))
ExpiryDaysOf(tok) ==
    LET starts == {i \in 1..Len(tok) :
                      /\ tok[i] = "("
                      /\ DigitRunEnd(tok, i + 1) >= i + 1
                      /\ DigitRunEnd(tok, i + 1) < Len(tok)
                      /\ tok[DigitRunEnd(tok, i + 1) + 1] = ")"}
    IN  IF starts = {} THEN None
        ELSE LET i == CHOOSE x \in starts : \A y \in starts : x <= y
             IN  Some(DecValue(SubSeq(tok, i + 1, DigitRunEnd(tok, i + 1))))

\* The fields dict of a matched row (lines 57-89).
FieldsE801(line, avail_str) ==
    LET tokens == Split(line)
        n      == Len(tokens)
    IN  [available   |-> PyInt(avail_str),
         remaining   |-> RemainingOf(tokens),
         expiry_date |-> IF n >= 2 THEN ExpiryDateOf(tokens[n - 1]) ELSE None,
         expiry_days |-> IF n >= 2 THEN ExpiryDaysOf(tokens[n]) ELSE None]

\* Mutant of Upsert: an existing key keeps the value it has
\* (data.setdefault(key, fields)).
UpsertFirst(data, key, fields) ==
    IF \E i \in 1..Len(data) : data[i].name = key
    THEN data
    ELSE Append(data, [name |-> key, fields |-> fields])

\* data[key] = fields: the value of an existing key is replaced where the
\* key stands, a new key is added at the end.
Upsert(data, key, fields) ==
    IF \E i \in 1..Len(data) : data[i].name = key
    THEN [i \in 1..Len(data) |->
            IF data[i].name = key THEN [data[i] EXCEPT !.fields = fields]
            ELSE data[i]]
    ELSE Append(data, [name |-> key, fields |-> fields])

\* OCR lines drawn for a Roche e801 text.
E801Line ==
    [header |-> \* "Test Reason Available Tests Type Pos. Remaining Lot ID Expiry Date"
        <<"T","e","s","t"," ","R","e","a","s","o","n"," ","A","v","a","i","l","a",
          "b","l","e"," ","T","e","s","t","s"," ","T","y","p","e"," ","P","o","s",
          "."," ","R","e","m","a","i","n","i","n","g"," ","L","o","t"," ","I","D",
          " ","E","x","p","i","r","y"," ","D","a","t","e">>,
     header2 |-> \* "Test Reason Type Pos. Remaining"
        <<"T","e","s","t"," ","R","e","a","s","o","n"," ","T","y","p","e"," ","P",
          "o","s","."," ","R","e","m","a","i","n","i","n","g">>,
     header3 |-> \* "Test Reason Available Tests Type"
        <<"T","e","s","t"," ","R","e","a","s","o","n"," ","A","v","a","i","l","a",
          "b","l","e"," ","T","e","s","t","s"," ","T","y","p","e">>,
     gluc |-> \* "GLUC 50 ASSAY 2025/09 (12)"
        <<"G","L","U","C"," ","5","0"," ","A","S","S","A","Y"," ","2","0","2","5",
          "/","0","9"," ","(","1","2",")">>,
     glucfull |-> \* "GLUC 50 ASSAY 12 45 612345 2025/09 (12)"
        <<"G","L","U","C"," ","5","0"," ","A","S","S","A","Y"," ","1","2"," ","4",
          "5"," ","6","1","2","3","4","5"," ","2","0","2","5","/","0","9"," ","(",
          "1","2",")">>,
     gluclow |-> \* " gluc   7 pre 3 60 2025/05 (1)"
        <<" ","g","l","u","c"," "," "," ","7"," ","p","r","e"," ","3"," ","6","0",
          " ","2","0","2","5","/","0","5"," ","(","1",")">>,
     ft3 |-> \* "FT3-3 10 ASSAY 3 30 712345 2025/10 (40)"
        <<"F","T","3","-","3"," ","1","0"," ","A","S","S","A","Y"," ","3"," ","3",
          "0"," ","7","1","2","3","4","5"," ","2","0","2","5","/","1","0"," ","(",
          "4","0",")">>,
     e2 |-> \* "E2 3 20 PRE 4 15 2025/13 (x)"
        <<"E","2"," ","3"," ","2","0"," ","P","R","E"," ","4"," ","1","5"," ","2",
          "0","2","5","/","1","3"," ","(","x",")">>,
     t4a |-> \* "FREE T4 5 DIL 2 8"
        <<"F","R","E","E"," ","T","4"," ","5"," ","D","I","L"," ","2"," ","8">>,
     t4b |-> \* "Free  T4 6 DIL 2 9"
        <<"F","r","e","e"," "," ","T","4"," ","6"," ","D","I","L"," ","2"," ","9">>,
     dash |-> \* "-3 50 ASSAY 1 2"
        <<"-","3"," ","5","0"," ","A","S","S","A","Y"," ","1"," ","2">>,
     nomatch |-> \* "GLUC fifty ASSAY"
        <<"G","L","U","C"," ","f","i","f","t","y"," ","A","S","S","A","Y">>,
     \* A row that ends before the Remaining column.
     short |-> \* "GLUC 50 ASSAY 12"
        <<"G","L","U","C"," ","5","0"," ","A","S","S","A","Y"," ","1","2">>,
     waste |-> \* "Solid Waste 3"
        <<"S","o","l","i","d"," ","W","a","s","t","e"," ","3">>]

E801Headers == {E801Line.header, E801Line.header2, E801Line.header3}
E801Rows == {E801Line.gluc, E801Line.glucfull, E801Line.gluclow, E801Line.ft3, E801Line.e2, E801Line.t4a, E801Line.t4b, E801Line.dash,
             E801Line.short, E801Line.nomatch, E801Line.waste, AULine.blank}

\* What the loop body makes of one line after the header: "break" at a
\* terminator, "skip" where the pattern does not match, "row" with the groups
\* of the match, the key and the fields dict.  header says whether the line
\* qualifies as the header.
OutcomeE801(line) ==
    LET none == [header |-> IsHeaderE801(line), kind |-> "skip",
                 raw_name |-> <<>>, name |-> <<>>, fields |-> <<>>]
        m    == MatchRow(line)
    IN  IF IsTerminator(line) THEN [none EXCEPT !.kind = "break"]
        ELSE IF m = None THEN none
        ELSE [none EXCEPT !.kind = "row",
                          !.raw_name = Val(m).raw_name,
                          !.name = KeyE801(Val(m).raw_name),
                          !.fields = FieldsE801(line, Val(m).avail_str)]

\* OutcomeE801 tabulated over the stripped lines the texts are drawn from
\* (computed once; RowE801(l) = OutcomeE801(l) for every such line).
OutcomesE801 ==
    [l \in {Strip(x) : x \in E801Headers \cup E801Rows} \ {<<>>} |-> OutcomeE801(l)]
RowE801(line) == OutcomesE801[line]

\* Mutant of HeaderIdxE801: without a header line the first line is taken.
HeaderIdxOrFirst(lines) ==
    LET hs == {i \in 1..Len(lines) : RowE801(lines[i]).header}
    IN  IF hs = {} THEN (IF lines = <<>> THEN 0 ELSE 1)
        ELSE CHOOSE i \in hs : \A j \in hs : i <= j

\* The loop of lines 32-36: the index of the first header line, 0 for None.
HeaderIdxE801(lines) ==
    LET hs == {i \in 1..Len(lines) : RowE801(lines[i]).header}
    IN  IF hs = {} THEN 0 ELSE CHOOSE i \in hs : \A j \in hs : i <= j

\* Mutant of RowsAfter: the loop starts at the first line of the text.
RowsFromTop(lines, header_idx) == lines

\* lines[header_idx+1:]
RowsAfter(lines, header_idx) == SubSeq(lines, header_idx + 1, Len(lines))

\* The loop over lines[header_idx+1:], which breaks at the first terminator
\* and stores each matched row under its key.
RECURSIVE ParseRowsE801(_, _)
ParseRowsE801(lines, data) ==
    IF lines = <<>> THEN data
    ELSE LET o == RowE801(Head(lines))
         IN  IF o.kind = "break" THEN data
             ELSE IF o.kind = "skip" THEN ParseRowsE801(Tail(lines), data)
             ELSE ParseRowsE801(Tail(lines), Upsert(data, o.name, o.fields))

\* Mutant of NewDict: the dict of the previous call is filled further.
KeptDict == final_data

\* data = {} and reagent_data = {}: each call starts from a new, empty dict.
NewDict == <<>>

\* parse_e801(text): whether the header was found, and the returned dict.
ParseE801(raw) ==
    LET lines      == StrippedLines(raw)
        header_idx == HeaderIdxE801(lines)
    IN  IF header_idx = 0
        THEN [found |-> FALSE, data |-> <<>>]
        ELSE [found |-> TRUE,
              data  |-> ParseRowsE801(RowsAfter(lines, header_idx), NewDict)]

--------------------------------------------------------------------------
(* pdf_processor.py: parse_ocr_text *)

\* [A-Za-z0-9\s\-]
IsNameChar(c) == IsAlpha(c) \/ IsDigit(c) \/ IsSpace(c) \/ c = "-"

\* (?:ML|Tests|units)? under re.IGNORECASE: the unit words, and no unit.
UnitWords ==
    {<<>>, <<"m","l">>, <<"t","e","s","t","s">>, <<"u","n","i","t","s">>}

\* Where (\d+)\s*(?:ML|Tests|units)?$ can end its digits: the positions d of
\* a digit that only whitespace and then a unit word (or nothing) follow up to
\* the end of the line.
ValueEnds(line) ==
    {d \in 1..Len(line) :
        /\ IsDigit(line[d])
        /\ \E u \in UnitWords :
              /\ Len(line) - Len(u) >= d
              /\ StartsWithCI(line, Len(line) - Len(u) + 1, u)
              /\ \A k \in (d + 1)..(Len(line) - Len(u)) : IsSpace(line[k])}

\* The first digit of the run of digits that ends at d.
DigitRunStart(s, d) ==
    CHOOSE i \in 1..d :
        /\ \A k \in i..d : IsDigit(s[k])
        /\ i = 1 \/ ~IsDigit(s[i - 1])

\* pattern.search(line) for r'^([A-Za-z0-9\s\-]+?)\s{2,}.*?(\d+)\s*(?:ML|Tests|units)?$':
\* None, or the name and the value of the match.  The name is lazy, so it
\* ends before the first two whitespace characters in a row; .*? is lazy, so
\* the value is the whole last run of digits.
MatchGeneric(line) ==
    LET gaps == {a \in 1..(Len(line) - 2) :
                    IsSpace(line[a + 1]) /\ IsSpace(line[a + 2])}
        ends == ValueEnds(line)
    IN  IF gaps = {} \/ ends = {} THEN None
        ELSE LET a == CHOOSE x \in gaps : \A y \in gaps : x <= y
                 d == CHOOSE x \in ends : \A y \in ends : x >= y
             IN  IF /\ \A k \in 1..a : IsNameChar(line[k])
                    /\ DigitRunStart(line, d) >= a + 3
                 THEN Some([name |-> Lower(Strip(SubSeq(line, 1, a))),
                            val  |-> DecValue(SubSeq(line, DigitRunStart(line, d), d))])
                 ELSE None

\* OCR lines drawn for a text of an analyzer without a parser.
GenericLine ==
    [gluc250 |-> \* "Gluc  lot 7 250 ML"
        <<"G","l","u","c"," "," ","l","o","t"," ","7"," ","2","5","0"," ","M","L">>,
     gluc90 |-> \* " GLUC   90"
        <<" ","G","L","U","C"," "," "," ","9","0">>,
     bun |-> \* "BUN-2  12tests"
        <<"B","U","N","-","2"," "," ","1","2","t","e","s","t","s">>,
     single |-> \* "ALT 30"
        <<"A","L","T"," ","3","0">>,
     paren |-> \* "AST (x)  5"
        <<"A","S","T"," ","(","x",")"," "," ","5">>]

GenericLines == {GenericLine.gluc250, GenericLine.gluc90, GenericLine.bun, GenericLine.single, GenericLine.paren, AULine.blank}

\* MatchGeneric tabulated over the stripped lines the texts are drawn from.
MatchesGeneric == [l \in {Strip(x) : x \in GenericLines} |-> MatchGeneric(l)]

\* The loop of the generic fallback over text.splitlines().
RECURSIVE ParseGenericLines(_, _)
ParseGenericLines(raw, reagent_data) ==
    IF raw = <<>> THEN reagent_data
    ELSE LET m == MatchesGeneric[Strip(Head(raw))]
         IN  IF m = None THEN ParseGenericLines(Tail(raw), reagent_data)
             ELSE ParseGenericLines(Tail(raw),
                      Upsert(reagent_data, Val(m).name,
                             [volume |-> Some(Val(m).val), expiry_date |-> None]))

\* parse_ocr_text(text, analyzer) as a function of its arguments: the
\* returned dict, the messages it shows and, for the AU5800, what
\* parse_au5800 collects on the way.
ParseOcrText(raw, key) ==
    LET none == [data |-> <<>>, log |-> <<>>, reagent_sets |-> <<>>,
                 failed |-> <<>>, no_volume_entries |-> <<>>]
        FromE801(out) ==
            [none EXCEPT !.data = out.data,
                         !.log = IF out.found THEN <<>>
                                 ELSE <<"warning: header not found">>]
        FromAU5800(out) ==
            [data |-> out.final_data,
             log |-> IF ~out.found THEN <<"warning: header not found">>
                     ELSE IF out.failed # <<>> THEN <<"expander: lines skipped">>
                     ELSE <<>>,
             reagent_sets |-> out.reagent_sets,
             failed |-> out.failed,
             no_volume_entries |-> out.no_volume_entries]
        FromGeneric(reagent_data) ==
            [none EXCEPT !.data = reagent_data,
                         !.log = IF reagent_data = <<>>
                                 THEN <<"warning: nothing parsed">>
                                 ELSE <<>>]
    IN  IF key = E801 THEN FromE801(ParseE801(raw))
        ELSE IF key = AU5800 THEN FromAU5800(ParseAU5800(raw))
        ELSE FromGeneric(ParseGenericLines(raw, NewDict))

\* The call current_volumes = parse_ocr_text(text, analyzer).
parse_ocr_text ==
    /\ pc = "loaded"
    /\ \E out \in {ParseOcrText(text, analyzer)} :
           /\ final_data' = out.data
           /\ current_data' = out.data
           /\ reagent_sets' = out.reagent_sets
           /\ failed' = out.failed
           /\ no_volume_entries' = out.no_volume_entries
           /\ st_log' = st_log \o out.log
           /\ calls' = Append(calls, [text |-> text, analyzer |-> analyzer,
                                      result |-> out.data])
    /\ pc' = "ready"
    /\ UNCHANGED <<text, analyzer, min_volumes, today, records, unmatched, sheet>>
    /\ UNCHANGED <<uploaded_pdf_file, pages, appVars>>

--------------------------------------------------------------------------
(* excel_processor.py: load_min_volumes_by_module, for the selected sheet *)

\* Mutant of LoaderKey: the name is trimmed and keeps its case.
LoaderKeyCased(raw_name) == Strip(raw_name)

\* .astype(str).str.strip().str.lower()
LoaderKey(raw_name) == Lower(Strip(raw_name))

\* dropna(subset=[reagent_col, min_col]): the rows with a name and a numeric
\* minimum.
KeptRows(rows) ==
    SelectSeq(rows, LAMBDA r : r.name # None /\ r.min # None)

\* dict(zip(sub[reagent_col], sub[min_col])): a later row of the same key
\* replaces an earlier one.
LoadSheet(rows) ==
    LET kept == KeptRows(rows)
        keys == {LoaderKey(Val(kept[i].name)) : i \in 1..Len(kept)}
    IN  [k \in keys |->
            LET last == CHOOSE i \in 1..Len(kept) :
                          /\ LoaderKey(Val(kept[i].name)) = k
                          /\ \A j \in (i + 1)..Len(kept) :
                                LoaderKey(Val(kept[j].name)) # k
            IN  Val(kept[last].min)]

\* The call that loads the minimum volumes of the selected sheet.
load_min_volumes_by_module ==
    /\ pc = "start"
    /\ min_volumes' = LoadSheet(sheet)
    /\ pc' = "loaded"
    /\ UNCHANGED <<sheet, text, analyzer, today, current_data, records, unmatched,
                   st_log, reagent_sets, failed, no_volume_entries, final_data,
                   calls>>
    /\ UNCHANGED <<uploaded_pdf_file, pages, appVars>>

--------------------------------------------------------------------------
(* Inputs of a run: a sheet, an analyzer key and an OCR text *)

\* Most lines drawn after the leading lines of a text.
MaxLines == 2

\* Sheets of the module: rows of (name cell, minimum cell), names as the
\* sheet prints them: "GLUC"; " Gluc ", "FT3-3"; "FREE T4", "E2 3", an empty
\* name cell, "FREE T4" again.
Sheets ==
    {<<[name |-> Some(<<"G","L","U","C">>), min |-> Some(40)]>>,
     <<[name |-> Some(<<" ","G","l","u","c"," ">>), min |-> Some(60)],
       [name |-> Some(<<"F","T","3","-","3">>), min |-> Some(30)]>>,
     <<[name |-> Some(<<"F","R","E","E"," ","T","4">>), min |-> Some(9)],
       [name |-> Some(<<"E","2"," ","3">>), min |-> None],
       [name |-> None, min |-> Some(5)],
       [name |-> Some(<<"F","R","E","E"," ","T","4">>), min |-> Some(1)]>>}

LinesUpTo(catalog, n) == UNION {[1..k -> catalog] : k \in 0..n}

E801Leads == {<<>>, <<E801Line.header>>, <<E801Line.header2>>, <<E801Line.header3>>,
              <<E801Line.glucfull, E801Line.header>>, <<E801Line.glucfull, E801Line.header, E801Line.ft3>>}
E801Texts == {lead \o rows : lead \in E801Leads, rows \in LinesUpTo(E801Rows, MaxLines)}

AU5800Leads == {<<>>, <<AULine.header>>, <<AULine.header2>>, <<AULine.bun30, AULine.header>>}
AU5800Rows == {AULine.header, AULine.bun30, AULine.bun45, AULine.alt20, AULine.short, AULine.novol, AULine.noname,
               AULine.summary}
AU5800Texts == {lead \o rows : lead \in AU5800Leads, rows \in LinesUpTo(AU5800Rows, MaxLines)}

GenericTexts == LinesUpTo(GenericLines, MaxLines)

\* Sheets drawn for a key without a profile: none, and "GLUC" with a minimum
\* that a line of the generic texts prints.
FallbackSheets ==
    {<<>>, <<[name |-> Some(<<"G","L","U","C">>), min |-> Some(90)]>>}

\* The runs drawn: every sheet with every e801 text; the AU5800 parser with
\* an empty sheet; the generic fallback with its sheets.
Runs ==
    (Sheets \X {E801} \X E801Texts)
    \cup ({<<>>} \X {AU5800} \X AU5800Texts)
    \cup (FallbackSheets \X {UNREGISTERED} \X GenericTexts)

PipelineInit ==
    /\ pc = "start"
    /\ \E r \in Runs :
          /\ sheet = r[1]
          /\ analyzer = r[2]
          /\ text = r[3]
    /\ today = DateOrdinal(2025, 5, 1)
    /\ min_volumes = <<>>
    /\ current_data = <<>>
    /\ records = <<>>
    /\ unmatched = <<>>
    /\ st_log = <<>>
    /\ reagent_sets = <<>>
    /\ failed = <<>>
    /\ no_volume_entries = <<>>
    /\ final_data = <<>>
    /\ calls = <<>>
    /\ uploaded_pdf_file = [present |-> FALSE, readable |-> FALSE, images |-> <<>>]
    /\ pages = None
    /\ SessionInit

PipelineNext ==
    \/ load_min_volumes_by_module
    \/ parse_ocr_text
    \/ find_reagents_to_load

SpecPipeline == PipelineInit /\ [][PipelineNext]_vars

--------------------------------------------------------------------------
(* Successive calls of parse_ocr_text in one process *)

\* Most calls of parse_ocr_text in a run.
MaxCalls == 3

\* The analyzer key and text of a call.
Uploads ==
    {<<E801, <<E801Line.header, E801Line.glucfull>>>>,
     <<E801, <<E801Line.header, E801Line.gluclow, E801Line.ft3>>>>,
     <<E801, <<E801Line.gluc>>>>,
     <<AU5800, <<AULine.header, AULine.bun30, AULine.bun45>>>>,
     <<AU5800, <<AULine.header, AULine.alt20>>>>,
     <<UNREGISTERED, <<GenericLine.gluc250, GenericLine.bun>>>>,
     <<UNREGISTERED, <<GenericLine.gluc90>>>>,
     <<UNREGISTERED, <<GenericLine.single>>>>}

\* The script runs again with another upload and selection, in the same
\* process: the module pdf_processor and whatever it holds stay loaded.
rerun ==
    /\ pc = "ready"
    /\ Len(calls) < MaxCalls
    /\ \E u \in Uploads :
          /\ analyzer' = u[1]
          /\ text' = u[2]
    /\ pc' = "loaded"
    /\ UNCHANGED <<sheet, min_volumes, today, current_data, records, unmatched,
                   st_log, reagent_sets, failed, no_volume_entries, final_data,
                   calls>>
    /\ UNCHANGED <<uploaded_pdf_file, pages, appVars>>

RepeatInit ==
    /\ pc = "loaded"
    /\ \E u \in Uploads :
          /\ analyzer = u[1]
          /\ text = u[2]
    /\ today = DateOrdinal(2025, 5, 1)
    /\ sheet = <<>>
    /\ min_volumes = <<>>
    /\ current_data = <<>>
    /\ records = <<>>
    /\ unmatched = <<>>
    /\ st_log = <<>>
    /\ reagent_sets = <<>>
    /\ failed = <<>>
    /\ no_volume_entries = <<>>
    /\ final_data = <<>>
    /\ calls = <<>>
    /\ uploaded_pdf_file = [present |-> FALSE, readable |-> FALSE, images |-> <<>>]
    /\ pages = None
    /\ SessionInit

RepeatNext ==
    \/ parse_ocr_text
    \/ rerun

SpecRepeat == RepeatInit /\ [][RepeatNext]_vars

--------------------------------------------------------------------------
(* pdf_processor.py: extract_reagent_data_from_pdf *)

\* indices = [p - 1 for p in pages if 1 <= p <= total_pages] if pages else
\* list(range(total_pages)), as 1-based page numbers: the numbers of the
\* list that are in range, in the order and as often as the list holds them,
\* and every page when the list is None or empty.
Indices(pgs, total_pages) ==
    IF pgs # None /\ Val(pgs) # <<>>
    THEN SelectSeq(Val(pgs), LAMBDA p : 1 <= p /\ p <= total_pages)
    ELSE [i \in 1..total_pages |-> i]

\* The lines of page_text + "\n\n" for a page image: page_text is what
\* pytesseract.image_to_string reads from the image, rotated first if it is a
\* landscape page of the AU5800; to its lines the two line ends add an empty
\* line, two empty lines for a page without text.
PageLines(img, key) ==
    LET page_text == IF key = AU5800 /\ img.width > img.height
                     THEN img.rotated ELSE img.upright
    IN  IF page_text = <<>> THEN <<<<>>, <<>>>> ELSE Append(page_text, <<>>)

\* The loop "for idx in indices: full_text += page_text + '\n\n'", as the
\* lines of full_text.
RECURSIVE FullText(_, _, _)
FullText(images, key, indices) ==
    IF indices = <<>> THEN <<>>
    ELSE PageLines(images[Head(indices)], key)
             \o FullText(images, key, Tail(indices))

\* The call extract_reagent_data_from_pdf(uploaded_pdf_file, analyzer, pages):
\* None without a file and where the file cannot be rendered, else the result
\* of parse_ocr_text on the text of the selected pages.
extract_reagent_data_from_pdf ==
    /\ pc = "upload"
    /\ IF ~uploaded_pdf_file.present
       THEN /\ pc' = "none"
            /\ UNCHANGED <<text, current_data, final_data, reagent_sets, failed,
                           no_volume_entries, st_log, calls>>
       ELSE IF ~uploaded_pdf_file.readable
       THEN /\ pc' = "none"
            /\ st_log' = Append(st_log, "error: processing PDF")
            /\ UNCHANGED <<text, current_data, final_data, reagent_sets, failed,
                           no_volume_entries, calls>>
       ELSE \E full_text \in {FullText(uploaded_pdf_file.images, analyzer,
                                  Indices(pages, Len(uploaded_pdf_file.images)))} :
            \E out \in {ParseOcrText(full_text, analyzer)} :
               /\ text' = full_text
               /\ final_data' = out.data
               /\ current_data' = out.data
               /\ reagent_sets' = out.reagent_sets
               /\ failed' = out.failed
               /\ no_volume_entries' = out.no_volume_entries
               /\ st_log' = Append(st_log, "write: parsing") \o out.log
               /\ calls' = Append(calls, [text |-> full_text, analyzer |-> analyzer,
                                          result |-> out.data])
               /\ pc' = "ready"
    /\ UNCHANGED <<analyzer, min_volumes, today, records, unmatched, sheet>>
    /\ UNCHANGED <<uploaded_pdf_file, pages, appVars>>

--------------------------------------------------------------------------
(* Inputs of extract_reagent_data_from_pdf *)

\* Most pages of a document, and longest list of page numbers drawn.
MaxPages == 2
MaxPick == 2

\* Page images with the lines the OCR reads from them: portrait pages of an
\* e801 report, pages of an AU5800 report, of which the landscape one reads
\* as a table only after the rotation, and pages of another analyzer.
PageImages ==
    (E801 :> {[width |-> 2, height |-> 3, rotated |-> <<>>,
               upright |-> <<E801Line.header, E801Line.glucfull>>],
              [width |-> 2, height |-> 3, rotated |-> <<>>,
               upright |-> <<E801Line.ft3, E801Line.waste>>],
              [width |-> 2, height |-> 3, rotated |-> <<>>, upright |-> <<>>]})
    @@
    (AU5800 :> {[width |-> 3, height |-> 2, upright |-> <<AULine.short>>,
                 rotated |-> <<AULine.header, AULine.bun30>>],
                [width |-> 2, height |-> 3, rotated |-> <<>>,
                 upright |-> <<AULine.bun45, AULine.summary>>]})
    @@
    (UNREGISTERED :> {[width |-> 2, height |-> 3, rotated |-> <<>>,
                       upright |-> <<GenericLine.gluc250>>],
                      [width |-> 2, height |-> 3, rotated |-> <<>>,
                       upright |-> <<GenericLine.gluc90, GenericLine.bun>>]})

\* The files drawn for an analyzer key: none, one that cannot be rendered,
\* and the documents of at most MaxPages pages.
PdfFiles(key) ==
    {[present |-> FALSE, readable |-> FALSE, images |-> <<>>],
     [present |-> TRUE, readable |-> FALSE, images |-> <<>>]}
    \cup {[present |-> TRUE, readable |-> TRUE, images |-> imgs] :
             imgs \in UNION {[1..n -> PageImages[key]] : n \in 1..MaxPages}}

\* The values of the pages argument: None, and the lists of at most MaxPick
\* numbers from 0 to one past the last page.
PageLists ==
    {None} \cup {Some(l) : l \in UNION {[1..n -> 0..(MaxPages + 1)] : n \in 0..MaxPick}}

ExtractInit ==
    /\ pc = "upload"
    /\ analyzer \in {E801, AU5800, UNREGISTERED}
    /\ uploaded_pdf_file \in PdfFiles(analyzer)
    /\ pages \in PageLists
    /\ today = DateOrdinal(2025, 5, 1)
    /\ text = <<>>
    /\ sheet = <<>>
    /\ min_volumes = <<>>
    /\ current_data = <<>>
    /\ records = <<>>
    /\ unmatched = <<>>
    /\ st_log = <<>>
    /\ reagent_sets = <<>>
    /\ failed = <<>>
    /\ no_volume_entries = <<>>
    /\ final_data = <<>>
    /\ calls = <<>>
    /\ SessionInit

ExtractNext == extract_reagent_data_from_pdf

SpecExtract == ExtractInit /\ [][ExtractNext]_vars

--------------------------------------------------------------------------
(* utils.py: extract_reagents_from_pdf, load_min_volumes, compare_reagents *)

\* The position of a column name in config["columns"], 0 if it is not there.
ColumnOf(columns, name) ==
    LET at == {i \in 1..Len(columns) : columns[i] = name}
    IN  IF at = {} THEN 0 ELSE CHOOSE i \in at : \A j \in at : i <= j

\* extract_reagents_from_pdf(uploaded_pdf, table_format): None where the file
\* cannot be read, holds no table, the table has another number of columns
\* than the format, the format lacks a key (the KeyError is caught) or its
\* quantity or test column is not among its columns; else the first table
\* under the column names of the format, with the quantity made numeric.  Of
\* a row, the test name and the quantity are kept.  The cells of the tables
\* drawn hold runs of digits, letters and "/": for them
\* pd.to_numeric(errors='coerce') is the number a run of digits stands for,
\* and NaN (None) for an empty cell and for the other cells.
ExtractReagents(uploaded_pdf, config) ==
    IF ~uploaded_pdf.readable \/ uploaded_pdf.tables = <<>> THEN None
    ELSE IF ~({"columns", "quantity_column", "test_name_column"} \subseteq DOMAIN config)
    THEN None
    ELSE LET df  == uploaded_pdf.tables[1]
             qty == ColumnOf(config.columns, config.quantity_column)
             tst == ColumnOf(config.columns, config.test_name_column)
             to_numeric(cell) ==
                 IF cell # <<>> /\ \A k \in 1..Len(cell) : IsDigit(cell[k])
                 THEN Some(DecValue(cell))
                 ELSE None
         IN  IF df.ncols # Len(config.columns) \/ qty = 0 \/ tst = 0 THEN None
             ELSE Some([r \in 1..Len(df.rows) |->
                          [test |-> df.rows[r][tst],
                           qty  |-> to_numeric(df.rows[r][qty])]])

\* load_min_volumes(uploaded_excel): None where the file cannot be read or
\* lacks the column Test or MinVolume; else the rows with a numeric minimum,
\* under the trimmed, lower-cased test name.
LoadMinVolumes(uploaded_excel) ==
    IF ~uploaded_excel.readable
           \/ ~({"Test", "MinVolume"} \subseteq uploaded_excel.columns)
    THEN None
    ELSE LET keyed == [r \in 1..Len(uploaded_excel.rows) |->
                          [Test_key  |-> Lower(Strip(uploaded_excel.rows[r].Test)),
                           MinVolume |-> uploaded_excel.rows[r].MinVolume]]
             kept  == SelectSeq(keyed, LAMBDA row : row.MinVolume # None)
         IN  Some([r \in 1..Len(kept) |->
                      [kept[r] EXCEPT !.MinVolume = Val(@)]])

\* reagents_df.merge(mins_df, on="Test_key", how="left") without the rows
\* that are left_only: each row of the PDF next to each row of the sheet that
\* has its trimmed, lower-cased test name, in the order of the PDF rows.
RECURSIVE MergeBoth(_, _)
MergeBoth(rows, mins) ==
    IF rows = <<>> THEN <<>>
    ELSE LET row   == Head(rows)
             found == SelectSeq(mins, LAMBDA mn : mn.Test_key = Lower(Strip(row.test)))
         IN  [k \in 1..Len(found) |->
                 [test |-> row.test, qty |-> row.qty,
                  MinVolume |-> found[k].MinVolume]]
             \o MergeBoth(Tail(rows), mins)

\* compare_reagents(reagents_df, mins_df, config): an empty DataFrame for a
\* None input, else the merged rows with merged[qty_col] < merged["MinVolume"],
\* which is False for a NaN quantity.
CompareReagents(df, mins, config) ==
    IF df = None \/ mins = None THEN Some(<<>>)
    ELSE Some(SelectSeq(MergeBoth(Val(df), Val(mins)),
                        LAMBDA row : row.qty # None /\ Val(row.qty) < row.MinVolume))

--------------------------------------------------------------------------
(* app.py and ui_components.display_sidebar: the script runs of a session *)

\* Each action below is one run of the script app.py, from its first line to
\* the point where the run ends: at st.rerun() or st.stop(), at an exception,
\* at its last line, or at an st.* call where Streamlit cuts the run short
\* because the user has interacted meanwhile.  What the widgets hold in a
\* run (the files of the uploaders, the value of the selectbox, a submitted
\* form, a clicked button) is an input of the run.

\* predefined_options + custom_options: the options of the selectbox.
FormatOptions == DOMAIN PREDEFINED_CONFIGS \cup DOMAIN custom_configurations

\* custom_configs.update(loaded_configs), and custom_configurations[name] =
\* config_data for a dict of one key.
Updated(custom_configs, loaded_configs) ==
    [name \in DOMAIN custom_configs \cup DOMAIN loaded_configs |->
        IF name \in DOMAIN loaded_configs THEN loaded_configs[name]
        ELSE custom_configs[name]]

\* The form of display_sidebar: config_to_update after the form's code, for
\* no submission (None) or the submitted fields.  validate_config_format
\* asks of a dict the form has built that the quantity column and the test
\* name column are non-empty after strip().
FormTrigger(form) ==
    IF form = None THEN config_to_update
    ELSE LET name == Strip(Val(form).custom_config_name)
         IN  IF name = <<>> \/ ~Val(form).filled THEN config_to_update
             ELSE IF name \in DOMAIN PREDEFINED_CONFIGS THEN config_to_update
             ELSE IF Val(form).new_format.quantity_column = ""
                        \/ Val(form).new_format.test_name_column = ""
             THEN config_to_update
             ELSE Some([name |-> name, config_data |-> Val(form).new_format])

\* current_format_config: the predefined configuration of the name, else the
\* custom one, else None.
CurrentFormatConfig ==
    IF selected_format_name \in DOMAIN PREDEFINED_CONFIGS
    THEN Some(PREDEFINED_CONFIGS[selected_format_name])
    ELSE IF selected_format_name \in DOMAIN custom_configurations
    THEN Some(custom_configurations[selected_format_name])
    ELSE None

\* Mutant of ResultOf: the comparison is made whatever was loaded.
ResultAlways(df, mins, config) == CompareReagents(df, mins, config)

\* Step 3 of the processing: the comparison if both dataframes are there,
\* else None.
ResultOf(df, mins, config) ==
    IF df # None /\ mins # None THEN CompareReagents(df, mins, config) ELSE None

\* The processing block (lines 120-161) for two files and a configuration,
\* up to the st.* call where the run is cut short, or to the call of
\* display_results in line 161, which raises TypeError (four arguments for
\* three parameters).  The st.* calls between which session state differs
\* are the progress bar of line 126, of line 134 (or a message of
\* load_min_volumes), the error of line 138 and the progress bar of line 143
\* (or a message of compare_reagents); cut is the line, 0 for a run that is
\* not cut short.
Processing(pdf_file, excel_file, config, cut) ==
    LET df   == ExtractReagents(pdf_file, config)
        mins == IF df # None THEN LoadMinVolumes(excel_file) ELSE None
        old  == [reagents_df |-> reagents_df, mins_df |-> mins_df,
                 result_df |-> result_df, pdf_processed |-> FALSE,
                 last_run |-> "cut"]
    IN  IF cut = 126 THEN old
        ELSE IF cut = 134 /\ df # None
        THEN [old EXCEPT !.reagents_df = df, !.pdf_processed = TRUE]
        ELSE IF cut = 138 /\ df = None
        THEN [old EXCEPT !.reagents_df = None, !.mins_df = None,
                         !.pdf_processed = TRUE, !.last_run = "cut at 138"]
        ELSE IF cut = 143 /\ df # None /\ mins # None
        THEN [old EXCEPT !.reagents_df = df, !.mins_df = mins,
                         !.pdf_processed = TRUE]
        ELSE [reagents_df |-> df, mins_df |-> mins,
              result_df |-> ResultOf(df, mins, config),
              pdf_processed |-> TRUE, last_run |-> "processed"]

--------------------------------------------------------------------------
(* Inputs of the script runs *)

\* A custom format as the form and a JSON file give it.
LabFormat ==
    [columns |-> <<"Test", "Qty">>, quantity_column |-> "Qty",
     test_name_column |-> "Test", is_predefined |-> FALSE]

\* Submitted forms: the name " Lab A", the name of a predefined format, the
\* same with a space after it, an empty name; a form whose quantity column
\* is a space.
Forms ==
    {[custom_config_name |-> n, filled |-> TRUE, new_format |-> LabFormat] :
        n \in {<<" ","L","a","b"," ","A">>, <<"R","o","c","h","e"," ","E","8","0","1">>, <<"R","o","c","h","e"," ","E","8","0","1"," ">>, <<" ">>}}
    \cup {[custom_config_name |-> <<"L","a","b"," ","B">>, filled |-> f, new_format |-> nf] :
            f \in BOOLEAN, nf \in {[LabFormat EXCEPT !.quantity_column = ""]}}

\* What load_custom_config_from_file makes of an uploaded file: None for a
\* file that is no JSON object, else the object: empty, one custom format,
\* a format that is an empty object, a format under the name of a predefined
\* one.
ConfigFiles ==
    {None, Some(<<>>),
     Some(<<"L","a","b"," ","X">> :> <<>>),
     Some(<<"L","a","b"," ","A">> :> [LabFormat EXCEPT !.columns = <<"Test", "Reason", "Qty">>]),
     Some(<<"R","o","c","h","e"," ","E","8","0","1">> :> LabFormat)}

\* Uploaded PDF files, as camelot reads them: a file that is no PDF, a PDF
\* without a table, a table of eight columns and one of two columns.
PdfUploads ==
    {[readable |-> FALSE, tables |-> <<>>],
     [readable |-> TRUE, tables |-> <<>>],
     [readable |-> TRUE, tables |-> <<
        [ncols |-> 8, rows |-> <<
            <<<<"G","L","U","C">>, <<>>, <<"5","0">>, <<"A","S","S","A","Y">>, <<"1","2">>, <<"4","5">>, <<"6","1","2","3","4","5">>, <<"2","0","2","5","/","0","9">>>>,
            <<<<"F","T","3">>, <<>>, <<"1","0">>, <<"A","S","S","A","Y">>, <<"3">>, <<"n","/","a">>, <<"7","1","2","3","4","5">>, <<"2","0","2","5","/","1","0">>>> >>] >>],
     [readable |-> TRUE, tables |-> <<
        [ncols |-> 2, rows |-> << <<<<" ","G","l","u","c"," ">>, <<"4","4">>>>, <<<<"B","U","N">>, <<"4","7">>>> >>] >>]}

\* Uploaded Excel files: a sheet without the column MinVolume, and a sheet
\* with the minimum of GLUC, a cell that is no number, and two rows of BUN.
ExcelUploads ==
    {[readable |-> TRUE, columns |-> {"Test", "Min"}, rows |-> <<>>],
     [readable |-> TRUE, columns |-> {"Test", "MinVolume"}, rows |-> <<
        [Test |-> <<"G","l","u","c">>, MinVolume |-> Some(45)],
        [Test |-> <<"F","T","3">>, MinVolume |-> None],
        [Test |-> <<" ","B","U","N">>, MinVolume |-> Some(46)],
        [Test |-> <<"b","u","n">>, MinVolume |-> Some(47)] >>]}

--------------------------------------------------------------------------
(* The script runs *)

\* Lines 47-53: the run that finds config_to_update set.
run_config_to_update ==
    /\ config_to_update # None
    /\ custom_configurations' =
           Updated(custom_configurations,
                   Val(config_to_update).name :> Val(config_to_update).config_data)
    /\ selected_format_name' = Val(config_to_update).name
    /\ config_to_update' = None
    /\ last_run' = "rerun"
    /\ UNCHANGED <<reagents_df, mins_df, result_df, config_to_delete, pdf_processed>>
    /\ UNCHANGED <<pc, reconcileVars, st_log, parseVars, sessionVars,
                   uploaded_pdf_file, pages>>

\* Lines 56-67: the run that finds config_to_delete set.  It may be cut short
\* at the st.success of line 60 or the st.warning of line 65, before the
\* selection and the trigger are reset.
run_config_to_delete ==
    /\ config_to_update = None
    /\ config_to_delete # None
    /\ \E cut \in BOOLEAN :
        LET name_to_delete == Val(config_to_delete)
        IN  /\ custom_configurations' =
                   IF name_to_delete \in DOMAIN custom_configurations
                   THEN [name \in DOMAIN custom_configurations \ {name_to_delete} |->
                            custom_configurations[name]]
                   ELSE custom_configurations
            /\ selected_format_name' =
                   IF ~cut /\ name_to_delete \in DOMAIN custom_configurations
                           /\ selected_format_name = name_to_delete
                   THEN PredefinedNames[1]
                   ELSE selected_format_name
            /\ config_to_delete' = IF cut THEN config_to_delete ELSE None
            /\ last_run' = IF cut THEN "cut" ELSE "rerun"
    /\ UNCHANGED <<reagents_df, mins_df, result_df, config_to_update, pdf_processed>>
    /\ UNCHANGED <<pc, reconcileVars, st_log, parseVars, sessionVars,
                   uploaded_pdf_file, pages>>

\* display_sidebar, lines 24-32, in a run that finds no trigger set: a file
\* of custom formats is loaded into the session's dict.  The run ends at the
\* st.sidebar.success of line 29 if it is cut short there, at line 31 where
\* Streamlit refuses the assignment to the key of a widget, or at the
\* st.rerun() of line 32.
run_load_custom_formats ==
    /\ config_to_update = None
    /\ config_to_delete = None
    /\ \E config_file \in ConfigFiles :
          /\ config_file # None
          /\ Val(config_file) # <<>>
          /\ custom_configurations' = Updated(custom_configurations, Val(config_file))
    /\ last_run' \in {"cut", "raised", "rerun"}
    /\ UNCHANGED <<selected_format_name, reagents_df, mins_df, result_df,
                   config_to_update, config_to_delete, pdf_processed>>
    /\ UNCHANGED <<pc, reconcileVars, st_log, parseVars, sessionVars,
                   uploaded_pdf_file, pages>>

\* display_sidebar, lines 106-109: the delete button of the selected custom
\* format is clicked.
run_delete_click ==
    /\ config_to_update = None
    /\ config_to_delete = None
    /\ \E selected_format \in DOMAIN custom_configurations :
          config_to_delete' = Some(selected_format)
    /\ last_run' = "rerun"
    /\ UNCHANGED <<custom_configurations, selected_format_name, reagents_df,
                   mins_df, result_df, config_to_update, pdf_processed>>
    /\ UNCHANGED <<pc, reconcileVars, st_log, parseVars, sessionVars,
                   uploaded_pdf_file, pages>>

\* Lines 73-82: the selectbox holds another format than the session; the
\* form may have been submitted in the same run.
run_format_change ==
    /\ config_to_update = None
    /\ config_to_delete = None
    /\ \E selected_format \in FormatOptions :
          /\ selected_format_name # selected_format
          /\ selected_format_name' = selected_format
    /\ \E form \in {None} \cup {Some(f) : f \in Forms} :
          config_to_update' = FormTrigger(form)
    /\ reagents_df' = None
    /\ mins_df' = None
    /\ result_df' = None
    /\ pdf_processed' = FALSE
    /\ last_run' = "rerun"
    /\ UNCHANGED <<custom_configurations, config_to_delete>>
    /\ UNCHANGED <<pc, reconcileVars, st_log, parseVars, sessionVars,
                   uploaded_pdf_file, pages>>

\* A run to the last line: the selectbox holds the format of the session, the
\* form may have been submitted, and at most one of the two files is there.
run_without_files ==
    /\ config_to_update = None
    /\ config_to_delete = None
    /\ selected_format_name \in FormatOptions
    /\ \E form \in {None} \cup {Some(f) : f \in Forms} :
          config_to_update' = FormTrigger(form)
    /\ last_run' = "end"
    /\ UNCHANGED <<custom_configurations, selected_format_name, reagents_df,
                   mins_df, result_df, config_to_delete, pdf_processed>>
    /\ UNCHANGED <<pc, reconcileVars, st_log, parseVars, sessionVars,
                   uploaded_pdf_file, pages>>

\* Lines 114-164: a run with both files, the selectbox holding the format of
\* the session; the form may have been submitted.  A format that is an empty
\* dict is no format for line 115, and the run ends at st.stop().
run_processing ==
    /\ config_to_update = None
    /\ config_to_delete = None
    /\ selected_format_name \in FormatOptions
    /\ \E form \in {None} \cup {Some(f) : f \in Forms} :
          config_to_update' = FormTrigger(form)
    /\ IF CurrentFormatConfig = None \/ DOMAIN Val(CurrentFormatConfig) = {}
       THEN /\ last_run' = "stop"
            /\ UNCHANGED <<reagents_df, mins_df, result_df, pdf_processed>>
       ELSE \E pdf_file \in PdfUploads, excel_file \in ExcelUploads, cut \in {0, 126, 134, 138, 143} :
            \E out \in {Processing(pdf_file, excel_file, Val(CurrentFormatConfig), cut)} :
               /\ reagents_df' = out.reagents_df
               /\ mins_df' = out.mins_df
               /\ result_df' = out.result_df
               /\ pdf_processed' = out.pdf_processed
               /\ last_run' = out.last_run
    /\ UNCHANGED <<custom_configurations, selected_format_name, config_to_delete>>
    /\ UNCHANGED <<pc, reconcileVars, st_log, parseVars, sessionVars,
                   uploaded_pdf_file, pages>>

AppInit ==
    /\ SessionInit
    /\ uploaded_pdf_file = [present |-> FALSE, readable |-> FALSE, images |-> <<>>]
    /\ pages = None
    /\ pc = "session"
    /\ analyzer = E801
    /\ today = DateOrdinal(2025, 5, 1)
    /\ text = <<>>
    /\ sheet = <<>>
    /\ min_volumes = <<>>
    /\ current_data = <<>>
    /\ records = <<>>
    /\ unmatched = <<>>
    /\ st_log = <<>>
    /\ reagent_sets = <<>>
    /\ failed = <<>>
    /\ no_volume_entries = <<>>
    /\ final_data = <<>>
    /\ calls = <<>>

AppNext ==
    \/ run_config_to_update
    \/ run_config_to_delete
    \/ run_load_custom_formats
    \/ run_delete_click
    \/ run_format_change
    \/ run_without_files
    \/ run_processing

SpecApp == AppInit /\ [][AppNext]_vars

--------------------------------------------------------------------------
(* Claims about find_reagents_to_load *)

Supported == analyzer \in DOMAIN ANALYZER_FIELDS
Returned == pc = "done" /\ Supported
Entries == {current_data[i] : i \in 1..Len(current_data)}

\* The record's current quantity and expiry date under the analyzer's profile.
Quantity(e) == Get(e.fields, ANALYZER_FIELDS[analyzer].volume_field)
Expiry(e) == Get(e.fields, ANALYZER_FIELDS[analyzer].expiry_date_field)
Matched(e) == e.name \in DOMAIN min_volumes
Above(e) == Quantity(e) # None /\ Val(Quantity(e)) > min_volumes[e.name]
WithinWindow(e) == Expiry(e) # None /\ Val(Expiry(e)) - today <= soon

\* The rows of the flagged output that carry the record's name.
RowsOf(name) == {j \in 1..Len(records) : records[j]["Reagent Name"] = Title(name)}
Flagged(name) == RowsOf(name) # {}

\* C1: a matched record without expiry date is flagged when its quantity
\* equals the minimum and is not flagged when its quantity is the minimum
\* plus one.
C1_ThresholdBoundary ==
    Returned =>
        \A e \in Entries :
            (Matched(e) /\ Expiry(e) = None /\ Quantity(e) # None) =>
                /\ Val(Quantity(e)) = min_volumes[e.name] => Flagged(e.name)
                /\ Val(Quantity(e)) = min_volumes[e.name] + 1 => ~Flagged(e.name)

C1_Witness ==
    /\ Returned
    /\ \E e, f \in Entries :
          /\ Matched(e) /\ Expiry(e) = None /\ Quantity(e) = Some(min_volumes[e.name])
          /\ Matched(f) /\ Expiry(f) = None /\ Quantity(f) = Some(min_volumes[f.name] + 1)
          /\ Flagged(e.name) /\ ~Flagged(f.name)

\* C2: a matched record above its minimum is flagged, with the expires-soon
\* flag true, when its expiry date is exactly soon (7) days after today, and
\* is not flagged when the date is one day later.
C2_ExpiryBoundary ==
    Returned =>
        \A e \in Entries :
            (Matched(e) /\ Above(e) /\ Expiry(e) # None) =>
                /\ Val(Expiry(e)) = today + soon =>
                      /\ Flagged(e.name)
                      /\ \A j \in RowsOf(e.name) : records[j]["Expires Within 7 Days"]
                /\ Val(Expiry(e)) = today + soon + 1 => ~Flagged(e.name)

C2_Witness ==
    /\ Returned
    /\ \E e, f \in Entries :
          /\ Matched(e) /\ Above(e) /\ Expiry(e) = Some(today + soon)
          /\ Matched(f) /\ Above(f) /\ Expiry(f) = Some(today + soon + 1)
          /\ \E j \in RowsOf(e.name) : records[j]["Expires Within 7 Days"]
          /\ ~Flagged(f.name)

\* C3 as stated, under a supported analyzer: every matched record is flagged
\* iff its quantity is at most the minimum or its expiry date is present and
\* within the window.
C3_Original ==
    Returned =>
        \A e \in Entries :
            Matched(e) =>
                (Flagged(e.name) <=>
                    \/ (Quantity(e) # None /\ Val(Quantity(e)) <= min_volumes[e.name])
                    \/ WithinWindow(e))

\* C3 amended: every matched record whose primary quantity is present is
\* flagged iff its quantity is at most the minimum or its expiry date is
\* present and within the window; a matched record whose primary quantity is
\* absent is not flagged.
C3_FlaggedIff ==
    Returned =>
        \A e \in Entries :
            Matched(e) =>
                (Flagged(e.name) <=>
                    /\ Quantity(e) # None
                    /\ \/ Val(Quantity(e)) <= min_volumes[e.name]
                       \/ WithinWindow(e))

C3_Witness ==
    /\ Returned
    /\ \E e, f \in Entries :
          /\ Matched(e) /\ Above(e) /\ WithinWindow(e) /\ Flagged(e.name)
          /\ Matched(f) /\ Quantity(f) = None /\ WithinWindow(f) /\ ~Flagged(f.name)

\* C4 as stated, under a supported analyzer: every record whose name is no key
\* of the minimum-volume map is in the unmatched list and not flagged, whatever
\* its field values.
C4_Original ==
    Returned =>
        \A e \in Entries :
            ~Matched(e) =>
                /\ \E k \in 1..Len(unmatched) : unmatched[k] = e.name
                /\ ~Flagged(e.name)

\* C4 amended: under a supported analyzer, every record whose name is no key
\* of the minimum-volume map is not flagged, and is in the unmatched list
\* exactly when its primary quantity is present.
C4_UnmatchedNotFlagged ==
    Returned =>
        \A e \in Entries :
            ~Matched(e) =>
                /\ (\E k \in 1..Len(unmatched) : unmatched[k] = e.name)
                      <=> Quantity(e) # None
                /\ ~Flagged(e.name)

C4_Witness ==
    /\ Returned
    /\ \E e, f \in Entries :
          /\ ~Matched(e) /\ Quantity(e) # None /\ WithinWindow(e)
          /\ ~Matched(f) /\ Quantity(f) = None
          /\ unmatched = <<e.name>>
          /\ records = <<>>

\* The position of a name in the input RecordSet.
PosOf(name) == CHOOSE i \in 1..Len(current_data) : current_data[i].name = name
PosOfRow(j) ==
    CHOOSE i \in 1..Len(current_data) :
        Title(current_data[i].name) = records[j]["Reagent Name"]

\* C5: flagged entries and unmatched names each appear in the relative order
\* of their records in the input RecordSet.
C5_OutputOrder ==
    pc = "done" =>
        /\ \A j, k \in 1..Len(records) : j < k => PosOfRow(j) < PosOfRow(k)
        /\ \A j, k \in 1..Len(unmatched) :
              j < k => PosOf(unmatched[j]) < PosOf(unmatched[k])

C5_Witness ==
    /\ pc = "done"
    /\ Len(records) >= 2
    /\ current_data[1].name = Name.gluc
    /\ records[1]["Reagent Name"] = Title(Name.gluc)

--------------------------------------------------------------------------
(* Claims about parse_au5800 *)

Parsed == pc = "done" /\ text # <<>>

\* The quantities of the rows collected for the i-th reagent, in row order.
ShotsOf(i) ==
    [k \in 1..Len(reagent_sets[i].entries) |-> reagent_sets[i].entries[k].shots]

Count(q, v) == Cardinality({k \in 1..Len(q) : q[k] = v})
IsPermOf(q, r) ==
    /\ Len(q) = Len(r)
    /\ \A k \in 1..Len(r) : Count(q, r[k]) = Count(r, r[k])

\* The ascending arrangement of a list of quantities.
Ascending(q) ==
    CHOOSE s \in [1..Len(q) -> {q[k] : k \in 1..Len(q)}] :
        /\ IsPermOf(s, q)
        /\ \A k \in 1..(Len(q) - 1) : s[k] <= s[k + 1]

\* min(q[0], q[1]) + min(q[2], q[3]) + ..., a trailing unpaired element added
\* as it is (q is 0-based in the claim, s is 1-based here).
RECURSIVE PairedMinSum(_)
PairedMinSum(s) ==
    IF Len(s) = 0 THEN 0
    ELSE IF Len(s) = 1 THEN s[1]
    ELSE (IF s[1] < s[2] THEN s[1] ELSE s[2]) + PairedMinSum(SubSeq(s, 3, Len(s)))

\* The sum of the elements at 0-based even indices.
RECURSIVE EvenIndexSum(_)
EvenIndexSum(s) ==
    IF Len(s) = 0 THEN 0
    ELSE s[1] + EvenIndexSum(SubSeq(s, 3, Len(s)))

\* C7: every reagent's aggregate 'shots' is the paired-min sum of its row
\* quantities sorted ascending, which is the sum of the sorted quantities at
\* 0-based even indices.
C7_PairedMinSum ==
    Parsed =>
        /\ Len(final_data) = Len(reagent_sets)
        /\ \A i \in 1..Len(reagent_sets) :
              /\ final_data[i].name = reagent_sets[i].name
              /\ final_data[i].fields.shots = Some(PairedMinSum(Ascending(ShotsOf(i))))
              /\ final_data[i].fields.shots = Some(EvenIndexSum(Ascending(ShotsOf(i))))

C7_Witness ==
    /\ Parsed
    /\ \E i \in 1..Len(reagent_sets) :
          /\ Len(ShotsOf(i)) = 3
          /\ ShotsOf(i)[1] > ShotsOf(i)[3]
          /\ ShotsOf(i)[2] > ShotsOf(i)[1]
          /\ final_data[i].fields.shots = Some(ShotsOf(i)[3] + ShotsOf(i)[2])

\* C8 as stated: rows of 30 and 45 for one reagent give 30, and with a third
\* row of 10 after them they give 40.
C8_Original ==
    Parsed =>
        \A i \in 1..Len(reagent_sets) :
            /\ ShotsOf(i) = <<30, 45>> => final_data[i].fields.shots = Some(30)
            /\ ShotsOf(i) = <<30, 45, 10>> => final_data[i].fields.shots = Some(40)

\* C8 amended: rows of 30 and 45 for one reagent give 30, and with a third
\* row of 10 they give 55, in whatever order the rows come: sorted 10, 30, 45,
\* the pair contributes min(10, 30) = 10 and the unpaired 45 its own value.
C8_BunExample ==
    Parsed =>
        \A i \in 1..Len(reagent_sets) :
            /\ IsPermOf(ShotsOf(i), <<30, 45>>) => final_data[i].fields.shots = Some(30)
            /\ IsPermOf(ShotsOf(i), <<30, 45, 10>>) => final_data[i].fields.shots = Some(55)

C8_Witness ==
    /\ Parsed
    /\ \E i \in 1..Len(reagent_sets) :
          /\ reagent_sets[i].name = Name.bun
          /\ ShotsOf(i) = <<30, 45, 10>>
          /\ final_data[i].fields.shots = Some(55)

\* The lines of the text that are data rows accepted for the reagent: after
\* the first header, before the first terminator that follows it.
IsHeaderAt(p) == Strip(text[p]) # <<>> /\ OutcomeOf(Strip(text[p])).header
IsBreakAt(p) == Strip(text[p]) # <<>> /\ OutcomeOf(Strip(text[p])).kind = "break"
InTable(p) ==
    \E h \in 1..(p - 1) :
        /\ IsHeaderAt(h)
        /\ \A q \in 1..(h - 1) : ~IsHeaderAt(q)
        /\ \A q \in (h + 1)..p : ~IsBreakAt(q)
RowsFor(name) ==
    {p \in 1..Len(text) :
        /\ InTable(p)
        /\ OutcomeOf(Strip(text[p])).kind = "row"
        /\ OutcomeOf(Strip(text[p])).name = name}

\* The texts that differ from the text by a permutation of those lines.
Shuffles(name) ==
    {[p \in 1..Len(text) |-> IF p \in RowsFor(name) THEN text[f[p]] ELSE text[p]] :
        f \in {g \in [RowsFor(name) -> RowsFor(name)] :
                  \A a, b \in RowsFor(name) : a # b => g[a] # g[b]}}

FieldsIn(data, name) ==
    {data[i].fields : i \in {j \in 1..Len(data) : data[j].name = name}}

\* C9: permuting the data rows of one reagent leaves that reagent's aggregate
\* quantity and reported expiry date as they are.
C9_RowOrderIrrelevant ==
    Parsed =>
        \A i \in 1..Len(final_data) :
            \A t \in Shuffles(final_data[i].name) :
                FieldsIn(ParseAU5800(t).final_data, final_data[i].name)
                    = {final_data[i].fields}

C9_Witness ==
    /\ Parsed
    /\ \E i \in 1..Len(final_data) :
          /\ Cardinality(RowsFor(final_data[i].name)) = 3
          /\ Cardinality(Shuffles(final_data[i].name)) = 6
          /\ final_data[i].fields.expiry_date # None

\* The dates parsed from the rows accepted for the i-th reagent.
DatesOf(i) ==
    {Val(reagent_sets[i].entries[k].expiry_date) :
        k \in {j \in 1..Len(reagent_sets[i].entries) :
                  reagent_sets[i].entries[j].expiry_date # None}}

\* C10: the expiry date reported for a reagent is the minimum of the dates
\* parsed from its accepted rows, and is absent exactly when none of them has
\* a parsable date.
C10_EarliestExpiry ==
    Parsed =>
        \A i \in 1..Len(reagent_sets) :
            /\ final_data[i].name = reagent_sets[i].name
            /\ \A k \in 1..Len(reagent_sets[i].entries) :
                  reagent_sets[i].entries[k].expiry_date
                      = OutcomeOf(reagent_sets[i].entries[k].line).expiry_date
            /\ final_data[i].fields.expiry_date = None <=> DatesOf(i) = {}
            /\ DatesOf(i) # {} =>
                  /\ Val(final_data[i].fields.expiry_date) \in DatesOf(i)
                  /\ \A d \in DatesOf(i) : Val(final_data[i].fields.expiry_date) <= d

C10_Witness ==
    /\ Parsed
    /\ \E i \in 1..Len(reagent_sets) :
          /\ Cardinality(DatesOf(i)) = 2
          /\ Len(reagent_sets[i].entries) = 3
          /\ reagent_sets[i].entries[1].expiry_date # None
          /\ final_data[i].fields.expiry_date # reagent_sets[i].entries[1].expiry_date

--------------------------------------------------------------------------
(* Claims about parse_ocr_text, parse_e801 and the run from sheet to flags *)

\* parse_ocr_text has returned, and the non-empty lines it was given.
Extracted == pc \in {"ready", "done"}
Lines == StrippedLines(text)
Keys == {current_data[i].name : i \in 1..Len(current_data)}
Warned(msg) == \E k \in 1..Len(st_log) : st_log[k] = msg

\* What the claims ask of a line, tabulated over the lines the texts are
\* drawn from: whether it holds the words a header is recognised by ('test'
\* and 'remaining', 'r1/r2 shots'), how many of the first three expected
\* labels of each profile it holds, and whether it holds a terminator word.
HasWord(line, w) == Contains(Lower(line), w)
Catalog ==
    {Strip(x) : x \in AULines \cup {AULine.header2, AULine.noname} \cup E801Headers
                     \cup E801Rows \cup GenericLines} \ {<<>>}
Facts ==
    [l \in Catalog |->
        [header |-> (E801 :> (HasWord(l, Word.test) /\ HasWord(l, Word.remaining)))
                    @@ (AU5800 :> HasWord(l, Word.header)),
         labels |-> [key \in {E801, AU5800} |->
                        Cardinality({k \in 1..3 :
                            HasWord(l, Lower(ANALYZER_HEADERS[key][k]))})],
         stop   |-> \E w \in {Word.total, Word.summary, Word.magazine, Word.waste} :
                        HasWord(l, w)]]
HeaderLike(line) == Facts[line].header[analyzer]

\* The first header line (0 if there is none), the first terminator line
\* after it (one past the end if there is none) and the lines between them.
FirstHeaderIn(ls) ==
    LET hs == {i \in 1..Len(ls) : HeaderLike(ls[i])}
    IN  IF hs = {} THEN 0 ELSE CHOOSE i \in hs : \A j \in hs : i <= j
FirstStopIn(ls, h) ==
    LET ts == {i \in (h + 1)..Len(ls) : Facts[ls[i]].stop}
    IN  IF ts = {} THEN Len(ls) + 1 ELSE CHOOSE i \in ts : \A j \in ts : i <= j
RegionIn(ls) ==
    LET h == FirstHeaderIn(ls)
    IN  IF h = 0 THEN {} ELSE (h + 1)..(FirstStopIn(ls, h) - 1)
FirstHeader == FirstHeaderIn(Lines)
FirstStop == FirstStopIn(Lines, FirstHeader)
Region == RegionIn(Lines)

C12_NoHeaderEmpty ==
    (Extracted /\ analyzer \in {E801, AU5800} /\ FirstHeader = 0)
        => /\ current_data = <<>>
           /\ final_data = <<>>
           /\ Warned("warning: header not found")

C12_Witness ==
    /\ Extracted
    /\ analyzer = E801
    /\ FirstHeader = 0
    /\ \E i \in 1..Len(Lines) : RowE801(Lines[i]).kind = "row"
    /\ current_data = <<>>

\* How many of the first three expected labels of the analyzer's profile
\* occur in the line, whatever the case.
LeadingLabels(line) == Facts[line].labels[analyzer]

IsRow(line) ==
    IF analyzer = E801 THEN RowE801(line).kind = "row" ELSE OutcomeOf(line).kind = "row"
NameOf(line) ==
    IF analyzer = E801 THEN RowE801(line).name ELSE OutcomeOf(line).name
RegionRowsIn(ls) == {i \in RegionIn(ls) : IsRow(ls[i])}
LastRowIn(ls, rows, name) ==
    CHOOSE i \in rows :
        NameOf(ls[i]) = name /\ \A j \in rows : NameOf(ls[j]) = name => j <= i
RegionRows == RegionRowsIn(Lines)
NameAt(i) == NameOf(Lines[i])
LastRowOf(name) == LastRowIn(Lines, RegionRows, name)

\* C14: only lines strictly after the first header line and strictly before
\* the first terminator line that follows it contribute: the records of
\* parse_e801 are those of the rows between them, and parse_au5800 collects
\* exactly the rows between them, so no line at or before the header and no
\* line at or after the terminator adds a record or a quantity.
C14_OnlyTableLines ==
    LET ls   == Lines
        rows == RegionRowsIn(ls)
    IN  /\ (Extracted /\ analyzer = E801) =>
              /\ Keys = {NameOf(ls[i]) : i \in rows}
              /\ \A k \in 1..Len(current_data) :
                    \E i \in rows :
                        /\ NameOf(ls[i]) = current_data[k].name
                        /\ RowE801(ls[i]).fields = current_data[k].fields
        /\ (Extracted /\ analyzer = AU5800) =>
              /\ Keys = {NameOf(ls[i]) : i \in rows}
              /\ {reagent_sets[k].name : k \in 1..Len(reagent_sets)} = Keys
              /\ \A k \in 1..Len(reagent_sets) :
                    /\ Len(reagent_sets[k].entries) =
                          Cardinality({i \in rows : NameOf(ls[i]) = reagent_sets[k].name})
                    /\ \A n \in 1..Len(reagent_sets[k].entries) :
                          \E i \in rows :
                              /\ ls[i] = reagent_sets[k].entries[n].line
                              /\ NameOf(ls[i]) = reagent_sets[k].name

C14_Witness ==
    /\ Extracted
    /\ analyzer = E801
    /\ FirstHeader > 1
    /\ FirstStop < Len(Lines)
    /\ RegionRows # {}
    /\ \E i \in 1..(FirstHeader - 1) :
          RowE801(Lines[i]).kind = "row" /\ RowE801(Lines[i]).name \notin Keys
    /\ \E i \in (FirstStop + 1)..Len(Lines) :
          RowE801(Lines[i]).kind = "row" /\ RowE801(Lines[i]).name \notin Keys
    /\ Len(current_data) = 1

\* " ".join(s.split()): whitespace runs collapsed to single spaces.
RECURSIVE JoinWords(_)
JoinWords(ws) ==
    IF ws = <<>> THEN <<>>
    ELSE IF Len(ws) = 1 THEN ws[1]
    ELSE ws[1] \o <<" ">> \o JoinWords(Tail(ws))
\* The name two raw names share when they differ only in letter case, in
\* outer or internal whitespace runs, or in a trailing '-N' / ' N' suffix.
CanonicalName(raw_name) == JoinWords(Split(Lower(StripSuffix(raw_name))))

\* C15: rows of parse_e801 whose raw names differ only in letter case, in
\* whitespace runs or in a trailing suffix make exactly one entry, which holds
\* the field values of the last of these rows.
C15_OneEntryPerName ==
    (Extracted /\ analyzer = E801) =>
        \A i \in RegionRows :
            LET same == {j \in RegionRows :
                            CanonicalName(RowE801(Lines[j]).raw_name)
                                = CanonicalName(RowE801(Lines[i]).raw_name)}
                last == CHOOSE j \in same : \A n \in same : n <= j
                held == {k \in 1..Len(current_data) :
                            \E j \in same : current_data[k].name = NameAt(j)}
            IN  /\ Cardinality(held) = 1
                /\ \A k \in held : current_data[k].fields = RowE801(Lines[last]).fields

\* Where the trailing suffix of a raw name starts: a '-' or a whitespace
\* character that only digits follow, 0 if the name has no such suffix.
SuffixAt(raw_name) ==
    LET c == {i \in 1..(Len(raw_name) - 1) :
                 /\ raw_name[i] \in {"-", " ", "\t"}
                 /\ \A k \in (i + 1)..Len(raw_name) : IsDigit(raw_name[k])}
    IN  IF c = {} THEN 0 ELSE CHOOSE i \in c : TRUE
ExpectedKey(raw_name) ==
    IF SuffixAt(raw_name) = 0 THEN Lower(Strip(raw_name))
    ELSE Lower(Strip(SubSeq(raw_name, 1, SuffixAt(raw_name) - 1)))
ExpectedKeys ==
    [l \in {x \in DOMAIN OutcomesE801 : OutcomesE801[x].kind = "row"} |->
        ExpectedKey(OutcomesE801[l].raw_name)]
HasRow(raw_name) == \E i \in RegionRows : RowE801(Lines[i]).raw_name = raw_name

\* C16: the key of a row of parse_e801 is its raw test name without its
\* trailing '-N' or ' N' suffix, trimmed and lower-cased: 'FT3-3' is stored
\* as 'ft3' and 'E2 3' as 'e2', and a name without such a suffix ('GLUC',
\* 'FREE T4') keeps all its characters.
C16_CanonicalKey ==
    (Extracted /\ analyzer = E801) =>
        LET ls   == Lines
            rows == RegionRowsIn(ls)
            raws == {RowE801(ls[i]).raw_name : i \in rows}
            ks   == Keys
        IN  /\ ks = {ExpectedKeys[ls[i]] : i \in rows}
            /\ <<"F","T","3","-","3">> \in raws => <<"f","t","3">> \in ks
            /\ <<"E","2"," ","3">> \in raws => <<"e","2">> \in ks
            /\ <<"G","L","U","C">> \in raws => <<"g","l","u","c">> \in ks
            /\ <<"F","R","E","E"," ","T","4">> \in raws => <<"f","r","e","e"," ","t","4">> \in ks

C16_Witness ==
    /\ Extracted
    /\ analyzer = E801
    /\ HasRow(<<"F","T","3","-","3">>)
    /\ HasRow(<<"E","2"," ","3">>)
    /\ Keys = {<<"f","t","3">>, <<"e","2">>}

\* C17: every key of the RecordSet that parse_e801, parse_au5800 or the
\* generic fallback returns is a non-empty string.
C17_KeysNonEmpty ==
    Extracted => \A k \in 1..Len(current_data) : current_data[k].name # <<>>

\* The run has ended, and the names the sheet lists with a numeric minimum.
Reconciled == pc = "done" /\ analyzer = E801
SheetNames == {Val(sheet[k].name) : k \in {n \in 1..Len(sheet) :
                                              sheet[n].name # None /\ sheet[n].min # None}}
Unmatched(name) == \E k \in 1..Len(unmatched) : unmatched[k] = name

\* C18 as stated: a row printed under a name of the sheet is stored under the
\* key the loader gives that name, so it is matched and not reported
\* unmatched.
C18_Original ==
    Reconciled =>
        \A i \in RegionRows :
            RowE801(Lines[i]).raw_name \in SheetNames
                => /\ NameAt(i) = LoaderKey(RowE801(Lines[i]).raw_name)
                   /\ NameAt(i) \in DOMAIN min_volumes
                   /\ ~Unmatched(NameAt(i))

\* C18 amended: for a raw name without a trailing '-N' / ' N' suffix the
\* key of parse_e801 is the key of the loader (trimmed, lower-cased), so a row
\* printed under such a name of the sheet is matched and not reported
\* unmatched; a name with such a suffix is stored under its base name by
\* parse_e801 and under its full name by the loader, and is matched only when
\* the sheet lists the base name.
C18_SameKeyWithoutSuffix ==
    Reconciled =>
        LET ls     == Lines
            listed == SheetNames
        IN  \A i \in RegionRowsIn(ls) :
                LET raw_name == RowE801(ls[i]).raw_name
                    name     == RowE801(ls[i]).name
                    suffix   == SuffixAt(raw_name)
                IN  /\ (raw_name \in listed /\ suffix = 0)
                        => /\ name = LoaderKey(raw_name)
                           /\ name \in DOMAIN min_volumes
                           /\ ~Unmatched(name)
                    /\ (raw_name \in listed /\ suffix # 0)
                        => /\ LoaderKey(raw_name) \in DOMAIN min_volumes
                           /\ name # LoaderKey(raw_name)
                           /\ name = LoaderKey(SubSeq(raw_name, 1, suffix - 1))
                    /\ name \in DOMAIN min_volumes
                        <=> \E s \in listed : LoaderKey(s) = name

C18_Witness ==
    /\ Reconciled
    /\ \E i \in RegionRows :
          /\ RowE801(Lines[i]).raw_name = <<"G","L","U","C">>
          /\ RowE801(Lines[i]).raw_name \in SheetNames
          /\ RowE801(Lines[LastRowOf(NameAt(i))]).fields.remaining # None
          /\ NameAt(i) \in DOMAIN min_volumes
          /\ ~Unmatched(NameAt(i))

\* The lines of the text the generic pattern matches, and the entry a name
\* is stored under.
GenericRows == {i \in 1..Len(text) : MatchesGeneric[Strip(text[i])] # None}
GenericName(i) == Val(MatchesGeneric[Strip(text[i])]).name
GenericVal(i) == Val(MatchesGeneric[Strip(text[i])]).val
Fallback == Extracted /\ analyzer \notin {E801, AU5800}

\* C19 as stated: the generic fallback keeps, for each name, the value of
\* the first matching line.
C19_Original ==
    Fallback =>
        \A k \in 1..Len(current_data) :
            \E i \in GenericRows :
                /\ GenericName(i) = current_data[k].name
                /\ \A j \in GenericRows : GenericName(j) = GenericName(i) => i <= j
                /\ current_data[k].fields.volume = Some(GenericVal(i))

\* C19 amended: the generic fallback keeps one entry for each name matched,
\* and the entry holds the value of the last matching line of that name:
\* later matches overwrite earlier ones.
C19_LastMatchWins ==
    Fallback =>
        /\ Keys = {GenericName(i) : i \in GenericRows}
        /\ \A k, n \in 1..Len(current_data) :
              current_data[k].name = current_data[n].name => k = n
        /\ \A k \in 1..Len(current_data) :
              \E i \in GenericRows :
                  /\ GenericName(i) = current_data[k].name
                  /\ \A j \in GenericRows : GenericName(j) = GenericName(i) => j <= i
                  /\ current_data[k].fields.volume = Some(GenericVal(i))

C19_Witness ==
    /\ Fallback
    /\ \E i, j \in GenericRows :
          /\ i < j
          /\ GenericName(i) = GenericName(j)
          /\ GenericVal(i) # GenericVal(j)
          /\ Len(current_data) = 1
          /\ current_data[1].fields.volume = Some(GenericVal(j))

\* The row of the example is the last row stored as 'gluc'.
GlucExample ==
    /\ Reconciled
    /\ LET ls   == Lines
           rows == RegionRowsIn(ls)
       IN  \E i \in rows :
              /\ ls[i] = E801Line.gluc
              /\ LastRowIn(ls, rows, Name.gluc) = i
GlucEntry == CHOOSE k \in 1..Len(current_data) : current_data[k].name = Name.gluc

--------------------------------------------------------------------------
(* Claims about malformed lines and about keys without a profile *)

\* What the claims read off a row of the e801 table, tabulated over the lines
\* the texts are drawn from: its whitespace-separated tokens, and the integer
\* printed in the Remaining column, the second token after the type token
\* (None where the row ends before it or prints no integer there).
PrintedRemaining(tokens) ==
    LET ts == {t \in 1..Len(tokens) : Lower(tokens[t]) \in TypeWords}
    IN  IF ts = {} THEN None
        ELSE LET t == CHOOSE x \in ts : \A y \in ts : x <= y
             IN  IF t + 2 <= Len(tokens) /\ tokens[t + 2] # <<>>
                    /\ \A k \in 1..Len(tokens[t + 2]) : IsDigit(tokens[t + 2][k])
                 THEN Some(DecValue(tokens[t + 2]))
                 ELSE None
Printed ==
    [l \in DOMAIN OutcomesE801 |->
        [tokens |-> Split(l), remaining |-> PrintedRemaining(Split(l))]]

\* The lines of the table that are malformed: for the e801, a row that ends
\* before the Remaining column or prints no integer there; for the AU5800, a
\* line with too few tokens or without digits in the shots column; for the
\* generic fallback, a line the pattern does not match.
MalformedIn(ls, i) ==
    IF analyzer = E801
    THEN i \in RegionRowsIn(ls) /\ Printed[ls[i]].remaining = None
    ELSE IF analyzer = AU5800
    THEN i \in RegionIn(ls) /\ OutcomeOf(ls[i]).kind = "failed"
    ELSE MatchesGeneric[ls[i]] = None

RECURSIVE WithoutMalformed(_, _)
WithoutMalformed(ls, i) ==
    IF i > Len(ls) THEN <<>>
    ELSE IF MalformedIn(ls, i) THEN WithoutMalformed(ls, i + 1)
         ELSE <<ls[i]>> \o WithoutMalformed(ls, i + 1)

\* C21 as stated: a malformed line is skipped or set aside and never changes
\* the records made from the other lines, so the text without its malformed
\* lines gives the same RecordSet.
C21_MalformedLinesChangeNothing ==
    Extracted =>
        LET ls == Lines
        IN  current_data = ParseOcrText(WithoutMalformed(ls, 1), analyzer).data

\* C22 as stated: a row of the e801 table with fewer tokens than the
\* Remaining column requires creates no entry and replaces none: every entry
\* holds the fields of the last row of its name that reaches the column.
C22_ShortRowSkipped ==
    (Extracted /\ analyzer = E801) =>
        LET ls   == Lines
            full == {i \in RegionRowsIn(ls) : Len(Printed[ls[i]].tokens) >= 5}
        IN  \A k \in 1..Len(current_data) :
                /\ \E i \in full : NameOf(ls[i]) = current_data[k].name
                /\ current_data[k].fields =
                       RowE801(ls[LastRowIn(ls, full, current_data[k].name)]).fields

\* C25 as stated: the 'remaining' value of an entry is the integer its row
\* prints in the Remaining column, also where the test name holds a space.
C25_RemainingColumn ==
    (Extracted /\ analyzer = E801) =>
        LET ls   == Lines
            rows == RegionRowsIn(ls)
        IN  \A k \in 1..Len(current_data) :
                LET p == Printed[ls[LastRowIn(ls, rows, current_data[k].name)]]
                IN  p.remaining # None =>
                        current_data[k].fields.remaining = p.remaining

\* C24: a key without a profile is an error only at reconciliation.
\* parse_ocr_text returns the records of the generic fallback, one for each
\* name a matching line prints, and find_reagents_to_load with the same key
\* reports the error and returns no flagged entry and no unmatched name,
\* whatever the records and the map hold.
C24_UnregisteredKey ==
    /\ Fallback =>
          /\ {current_data[k].name : k \in 1..Len(current_data)}
                 = {GenericName(i) : i \in GenericRows}
          /\ \A k \in 1..Len(current_data) :
                DOMAIN current_data[k].fields = {"volume", "expiry_date"}
    /\ (pc = "done" /\ analyzer \notin {E801, AU5800}) =>
          /\ records = <<>>
          /\ unmatched = <<>>
          /\ Warned("error: unsupported analyzer")

\* The fallback has returned a record of a name of the map, with a volume at
\* its minimum, next to a record of a name the map lacks, and the
\* reconciliation has ended.
C24_Witness ==
    /\ pc = "done"
    /\ analyzer = UNREGISTERED
    /\ \E k \in 1..Len(current_data) :
          /\ current_data[k].name \in DOMAIN min_volumes
          /\ Val(current_data[k].fields.volume) = min_volumes[current_data[k].name]
    /\ \E k \in 1..Len(current_data) : current_data[k].name \notin DOMAIN min_volumes
    /\ records = <<>>

--------------------------------------------------------------------------
(* Claims about extract_reagent_data_from_pdf *)

\* The lines of the pages of a set of page numbers, in ascending page order.
RECURSIVE AscendingText(_, _)
AscendingText(selected, p) ==
    IF p > Len(uploaded_pdf_file.images) THEN <<>>
    ELSE (IF p \in selected
          THEN PageLines(uploaded_pdf_file.images[p], analyzer)
          ELSE <<>>) \o AscendingText(selected, p + 1)

\* C23 as stated: the text handed to the parser is the text of the selected
\* pages that are in range, in ascending page order whatever the order of the
\* list; pages = None selects every page (and so does an empty list, which
\* the claim does not speak of).
C23_AscendingPageOrder ==
    pc = "ready" =>
        LET total == Len(uploaded_pdf_file.images)
            selected == IF pages = None \/ Val(pages) = <<>> THEN 1..total
                        ELSE {Val(pages)[k] : k \in 1..Len(Val(pages))} \cap (1..total)
        IN  text = AscendingText(selected, 1)

--------------------------------------------------------------------------
(* Claims about the session of app.py *)

\* The PDF rows of the session that matched a row of the minimum-volume
\* table, next to that row's minimum.
MatchedRows == MergeBoth(Val(reagents_df), Val(mins_df))

\* C26: when the comparison of a processing run returns an empty result for
\* two loaded dataframes, every PDF reagent that matched a row of the
\* minimum-volume table and has a numeric quantity has a quantity strictly
\* greater than its MinVolume.
C26_EmptyResultMeansAbove ==
    (last_run = "processed" /\ reagents_df # None /\ mins_df # None
        /\ result_df = Some(<<>>))
    => \A k \in 1..Len(MatchedRows) :
          MatchedRows[k].qty # None
          => Val(MatchedRows[k].qty) > MatchedRows[k].MinVolume

\* C27: no key of the session's custom_configurations is the name of a
\* predefined format.
C27_NoPredefinedNameAmongCustom ==
    DOMAIN custom_configurations \cap DOMAIN PREDEFINED_CONFIGS = {}

\* result_df is non-None only if reagents_df and mins_df are, and mins_df is
\* non-None only if reagents_df is.
SessionShape ==
    /\ result_df # None => (reagents_df # None /\ mins_df # None)
    /\ mins_df # None => reagents_df # None

\* The session after lines 78-81: no dataframe, and pdf_processed False.
ResultsCleared ==
    /\ reagents_df = None
    /\ mins_df = None
    /\ result_df = None
    /\ pdf_processed = FALSE

--------------------------------------------------------------------------
(* Claims about records without a quantity *)

\* The record has no value in the analyzer's quantity field: the key is
\* absent from its fields or holds None.
NoQuantity(e) ==
    LET f == ANALYZER_FIELDS[analyzer].volume_field
    IN  f \notin DOMAIN e.fields \/ e.fields[f] = None

\* C29: a record without a value in the analyzer's quantity field is never
\* flagged and never listed as unmatched, whatever its expiry date and whether
\* or not its name is in the minimum-volume map.
C29_NoQuantityNeverListed ==
    Returned =>
        \A e \in Entries :
            NoQuantity(e) => ~Flagged(e.name) /\ ~Unmatched(e.name)

\* Two records without quantity, one matched and about to expire, one of a
\* name the map lacks: nothing is flagged, nothing is listed.
C29_Witness ==
    /\ Returned
    /\ \E e1, e2 \in Entries :
          /\ NoQuantity(e1) /\ Matched(e1) /\ WithinWindow(e1)
          /\ NoQuantity(e2) /\ ~Matched(e2)
    /\ records = <<>>
    /\ unmatched = <<>>

--------------------------------------------------------------------------
(* Claims about the "No volume in the Bottle" lines of parse_au5800 *)

\* The lines of the table that say "No volume in the Bottle".
NoVolumeAt(p) == InTable(p) /\ OutcomeOf(Strip(text[p])).kind = "no_volume"

\* The text without those lines.
RECURSIVE WithoutNoVolume(_)
WithoutNoVolume(p) ==
    IF p > Len(text) THEN <<>>
    ELSE IF NoVolumeAt(p) THEN WithoutNoVolume(p + 1)
         ELSE <<text[p]>> \o WithoutNoVolume(p + 1)

\* C30: a "No volume in the Bottle" line of the table adds nothing to any
\* reagent's aggregate (the text without these lines gives the same RecordSet),
\* is not in the list of skipped lines, and a reagent that has only such lines
\* has no entry in the RecordSet.
C30_NoVolumeLinesSetAside ==
    Parsed =>
        /\ final_data = ParseAU5800(WithoutNoVolume(1)).final_data
        /\ \A p \in 1..Len(text) :
              NoVolumeAt(p) =>
                  /\ \A k \in 1..Len(failed) : failed[k] # Strip(text[p])
                  /\ \A k \in 1..Len(reagent_sets) :
                        \A j \in 1..Len(reagent_sets[k].entries) :
                            reagent_sets[k].entries[j].line # Strip(text[p])
                  /\ RowsFor(OutcomeOf(Strip(text[p])).name) = {} =>
                        \A i \in 1..Len(final_data) :
                            final_data[i].name # OutcomeOf(Strip(text[p])).name

\* A table with a "No volume in the Bottle" line of a reagent that has no
\* other row, next to a row of another reagent: one entry, nothing skipped.
C30_Witness ==
    /\ Parsed
    /\ \E p \in 1..Len(text) :
          /\ NoVolumeAt(p)
          /\ RowsFor(OutcomeOf(Strip(text[p])).name) = {}
    /\ Len(no_volume_entries) = 1
    /\ Len(final_data) = 1
    /\ failed = <<>>

==========================================================================
